---- MODULE Spec2Model ----
(***************************************************************************)
(* Retrieval planning, multi-query fusion, source assembly and response    *)
(* framing of the chat endpoint (src/src/app/api/chat/route.ts), the chat  *)
(* page that reads its response, the transcript chunker of the ingestion   *)
(* scripts, and the search endpoint.                                       *)
(*                                                                         *)
(* Each component is a group of variables with its own specification:      *)
(*   SpecPlan     planSearch and the call POST makes with its plan         *)
(*   SpecFuse     multiQuerySearch, one action per awaited call            *)
(*   SpecOrder    two runs of the fusion loop over the same result lists   *)
(*   SpecSources  the source list POST builds from the fused chunks        *)
(*   SpecStream   the ReadableStream POST returns                          *)
(*   SpecClient   handleSubmit of the chat page reading that stream        *)
(*   SpecMode     POST choosing episode-scoped or global chat              *)
(*   SpecChunk    the paragraph loop of chunkTranscript                    *)
(*   SpecRechunk  chunkTranscript against the chunks table, run twice      *)
(*   SpecSearch   POST of the search endpoint                              *)
(*   SpecRequest  the request body at the chat and the search endpoint     *)
(*   SpecHangup   the response stream when the caller cancels it           *)
(*   SpecGuest    textSearchEpisodes                                       *)
(*   SpecRate     checkRateLimit                                           *)
(*   SpecEmbed    main() of the embedding script                           *)
(*   SpecPodcast  handleSubmit of PodcastChat reading the response         *)
(* SpecHangupFair and SpecEmbedFair add the fairness of their steps.       *)
(* Strings whose characters matter (timestamps) are sequences of character *)
(* codes; similarities are integers (tenths).                              *)
(***************************************************************************)
EXTENDS Integers, Sequences, FiniteSets, TLC

VARIABLES
  \* planSearch / POST (global mode)
  ppc,          \* "planning" | "planned" | "searching" | "error500"
  message,      \* the request's message
  completion,   \* what the planning completion call did
  plan,         \* the SearchPlan planSearch returned
  mqsArgs       \* the arguments POST passed to multiQuerySearch

planVars == <<ppc, message, completion, plan, mqsArgs>>

VARIABLES
  \* multiQuerySearch
  fpc,                 \* "idle" | "resolve" | "loop" | "done"
  queries,             \* parameter: the query strings
  guestFilter,         \* parameter: a guest name, or NoGuest for null
  limit,               \* parameter: the result budget
  guestEpisodes,       \* what textSearchEpisodes returned
  filterEpisodeIds,    \* [isNull, ids]
  qi,                  \* index of the query the for loop is at
  ei,                  \* 0 before the query's embedding, else index in ids
  allChunks,           \* the Map, as its entries in insertion order
  relevantEpisodeIds,  \* the Set, as its elements in insertion order
  sortedChunks,        \* returned chunks
  episodes,            \* returned episodes (their ids)
  \* history of the run, read by the properties only
  returned,            \* <<chunk id, similarity>> pairs searchChunks returned
  calls,               \* the searchChunks calls made: [q, ep], ep = 0 unfiltered
  embedFailed,         \* indices of the queries whose getEmbedding threw
  storeFailed          \* the calls whose store query reported an error

fuseVars ==
  <<fpc, queries, guestFilter, limit, guestEpisodes, filterEpisodeIds, qi, ei,
    allChunks, relevantEpisodeIds, sortedChunks, episodes,
    returned, calls, embedFailed, storeFailed>>

VARIABLES
  \* two runs of the fusion loop over the same per-query result lists
  opc,       \* "idle" | "loop" | "done"
  oLists,    \* the result list of each query
  oPerm,     \* the order in which the second run takes them
  oLimit,    \* the result budget of both runs
  oStep,     \* how many lists each run has merged
  oFirst,    \* allChunks of the run in the given order
  oSecond,   \* allChunks of the run in the order oPerm
  oResults   \* the chunk lists the two runs return

orderVars == <<opc, oLists, oPerm, oLimit, oStep, oFirst, oSecond, oResults>>

VARIABLES
  \* the source list POST builds in global mode
  spc,        \* "idle" | "searched" | "assembled"
  sChunks,    \* chunks returned by multiQuerySearch, in ranked order
  sEpisodes,  \* ids of the episodes returned by multiQuerySearch
  sources     \* the source list

sourceVars == <<spc, sChunks, sEpisodes, sources>>

VARIABLES
  \* the response stream of POST
  stpc,       \* "idle" | "streaming" | "closed" | "errored"
  stSources,  \* the source list of the request
  gen,        \* the text deltas result.textStream has yielded so far
  enqueued    \* the chunks given to controller.enqueue, in order

streamVars == <<stpc, stSources, gen, enqueued>>

\* the chat endpoint's components
chatVars == <<planVars, fuseVars, orderVars, sourceVars, streamVars>>

VARIABLES
  \* handleSubmit of the global chat page, reading one response
  cpc,               \* "idle" | "reading" | "done" | "failed"
  cText,             \* the text the completion generated
  cList,             \* the source list of the response
  pending,           \* the byte chunks reader.read() has still to deliver
  assistantMessage,  \* let assistantMessage
  isReadingSources,  \* let isReadingSources
  sourcesBuffer,     \* let sourcesBuffer
  clientSources      \* let sources

clientVars ==
  <<cpc, cText, cList, pending, assistantMessage, isReadingSources,
    sourcesBuffer, clientSources>>

VARIABLES
  \* POST choosing between episode-scoped and global chat
  mpc,          \* "idle" | "received" | "planned" | "context" | "prompted" | "error500"
  mEpisodeId,   \* the request's episodeId
  mStore,       \* the episodes table: what is stored under each id
  mQueries,     \* searchPlan.searchQueries
  context,      \* let context, as the parts of the template string
  modeSources,  \* let sources
  systemPrompt, \* let systemPrompt: which template, then the context
  invoked       \* the functions POST has called so far

modeVars ==
  <<mpc, mEpisodeId, mStore, mQueries, context, modeSources, systemPrompt,
    invoked>>

VARIABLES
  \* the loop of chunkTranscript over one transcript
  kpc,               \* "idle" | "loop" | "chunked"
  transcript,           \* parameter: the transcript
  kParagraphs,        \* const paragraphs
  kpi,               \* index of the paragraph the for loop is at
  currentChunk,      \* let currentChunk, the buffer
  chunkIndex,        \* let chunkIndex
  currentTimestamp,  \* let currentTimestamp
  currentSpeaker,    \* let currentSpeaker
  kChunks,            \* const chunks
  \* history of the loop, read by the properties only
  holds,             \* indices of the kParagraphs put whole into the buffer
  chunkHolds,        \* for each chunk, the kParagraphs its buffer held
  emittedAt          \* for each chunk, the value of kpi when it was pushed

chunkVars ==
  <<kpc, transcript, kParagraphs, kpi, currentChunk, chunkIndex, currentTimestamp,
    currentSpeaker, kChunks, holds, chunkHolds, emittedAt>>

VARIABLES
  \* chunkTranscript against the chunks table
  rpc,          \* "idle" | "delete" | "insert" | "returned"
  rTranscript,  \* parameter: the transcript (the episode is RechunkedEpisode)
  rChunks,      \* const chunks, as the loop left it
  rBatch,       \* let i of the insert loop
  chunksTable,        \* the rows of the chunks table, in insertion order
  rRun,         \* which run of chunkTranscript this is
  \* history, read by the properties only
  rErrors,      \* the store calls that reported an error
  afterFirst    \* the episode's rows when the first run returned

rechunkVars ==
  <<rpc, rTranscript, rChunks, rBatch, chunksTable, rRun, rErrors, afterFirst>>

VARIABLES
  \* POST of the search endpoint
  xpc,              \* "idle" | "received" | "semantic" | "responded" | "error500"
  xType,            \* the request's type
  xLimit,           \* the request's limit
  xResults,         \* let results
  xResponse,        \* the results of the JSON response
  \* history, read by the properties only
  xHits,            \* the rows match_chunks returned
  semanticResults,  \* results as the semantic step left it
  textRows          \* the rows of the text search: [ran, rows]

searchVars ==
  <<xpc, xType, xLimit, xResults, xResponse, xHits, semanticResults, textRows>>

VARIABLES
  \* one request to POST of the chat or of the search endpoint
  qpc,        \* "idle" | "received" | "episode" | "plan" | "retrieve" | "work" | "responded"
  qEndpoint,  \* "chat" | "search"
  qBody,      \* the request body
  qCalls,     \* the embedding, completion and datastore calls made so far
  qResponse   \* the response: [status, error]

requestVars == <<qpc, qEndpoint, qBody, qCalls, qResponse>>

VARIABLES
  \* the response stream of POST when the caller may cancel it
  hpc,        \* "idle" | "pulling" | "holding" | "finishing" | "closed" | "exited"
  hState,     \* the ReadableStream: "readable" | "cancelled" | "closed" | "errored"
  hPulled,    \* how many deltas the loop has taken from result.textStream
  hQueue,     \* how many chunks are in the queue of the response stream
  hReleased,  \* the iterator of result.textStream is finished or closed
  \* history, read by the properties only
  hEnqueued,  \* how many chunks controller.enqueue has accepted
  hObserved   \* the loop has met the cancelled stream

hangupVars == <<hpc, hState, hPulled, hQueue, hReleased, hEnqueued, hObserved>>

VARIABLES
  \* textSearchEpisodes
  gpc,      \* "idle" | "exact" | "words" | "returned"
  gQuery,   \* parameter: the name, as its characters
  gLimit,   \* parameter: limit
  gTable,   \* the episodes table, in the order the store scans it
  gResult,  \* the episodes returned
  \* history, read by the properties only
  gRan,     \* which of the two store queries ran
  gExact    \* the rows of the first query (none when data was null)

guestVars == <<gpc, gQuery, gLimit, gTable, gResult, gRan, gExact>>

VARIABLES
  \* checkRateLimit and its table
  rateLimitStore,  \* const rateLimitStore: the record under each identifier
  clock,           \* Date.now()
  lastCall,        \* the last call: its identifier and what it returned
  \* history, read by the properties only
  grants,          \* for each identifier, the times of its allowed calls
  windows,         \* for each identifier, the windows opened: [from, to]
  solo             \* the records of tables that serve one identifier each

rateVars == <<rateLimitStore, clock, lastCall, grants, windows, solo>>

VARIABLES
  \* main() of the embedding script
  bpc,           \* "idle" | "fetch" | "embed" | "update" | "exited" | "rejected"
  nullChunks,    \* the chunks whose embedding is null
  neverEmbeds,   \* the chunks whose embedding call fails at every attempt
  neverUpdates,  \* the chunks whose update fails at every attempt
  bBatch,        \* const chunks of the current turn
  bIndex,        \* position of the for loop running
  bUpdates,      \* const updates
  processed,     \* let processed, counted up to MaxCount
  bErrors        \* let errors, counted up to MaxCount

embedVars ==
  <<bpc, nullChunks, neverEmbeds, neverUpdates, bBatch, bIndex, bUpdates,
    processed, bErrors>>

VARIABLES
  \* handleSubmit of PodcastChat, reading one response
  ypc,       \* "idle" | "reading" | "done" | "failed"
  yText,     \* the text the completion generated
  yList,     \* the source list of the response
  yPending,  \* the byte chunks reader.read() has still to deliver
  yMessage,  \* let assistantMessage
  yDisplay   \* the content of the assistant message on display

podcastVars == <<ypc, yText, yList, yPending, yMessage, yDisplay>>

\* the components of sections 12 and later
lastVars == <<requestVars, hangupVars, guestVars, rateVars, embedVars, podcastVars>>

\* the page, mode, chunking and search components
midVars == <<clientVars, modeVars, chunkVars, rechunkVars, searchVars>>

\* the components outside the chat endpoint
laterVars == <<midVars, lastVars>>

vars == <<chatVars, laterVars>>

\* --------------------------------------------------------------------------
\* JavaScript values, as far as planSearch reads them
\* --------------------------------------------------------------------------
JUndef == [t |-> "undefined", v |-> <<>>]
JNull == [t |-> "null", v |-> <<>>]
JStr(s) == [t |-> "str", v |-> <<s>>]
JNum(n) == [t |-> "num", v |-> <<n>>]
JArr(strs) == [t |-> "arr", v |-> strs]

\* ToBoolean: undefined, null, "" and 0 are falsy; every array is truthy
Truthy(j) ==
  CASE j.t = "undefined" -> FALSE
    [] j.t = "null" -> FALSE
    [] j.t = "str" -> j.v[1] # ""
    [] j.t = "num" -> j.v[1] # "0"
    [] OTHER -> TRUE

\* a || b
JsOr(a, b) == IF Truthy(a) THEN a ELSE b

\* --------------------------------------------------------------------------
\* planSearch
\* --------------------------------------------------------------------------
MaxContentLen == 3

Messages == {"m"}

\* The completion text, as a sequence of tokens: braces, prose, and
\* "key": value members of a JSON object.
Tok(k, val) == [k |-> k, val |-> val]
LBrace == Tok("{", JUndef)
RBrace == Tok("}", JUndef)
Prose == Tok("prose", JUndef)
FieldKeys == {"searchQueries", "guestFilter", "searchMode", "intent"}
FieldTokens ==
  {Tok("searchQueries", x) :
     x \in {JArr(<<"q1", "q2">>), JArr(<<>>), JNum("7"), JNull}}
  \cup {Tok("guestFilter", x) : x \in {JStr("Brian Chesky"), JNull}}
  \cup {Tok("searchMode", JStr("focused")), Tok("intent", JStr("i"))}
ContentTokens == {LBrace, RBrace, Prose} \cup FieldTokens

SeqsUpTo(S, n) == UNION {[1..k -> S] : k \in 0..n}

Contents == SeqsUpTo(ContentTokens, MaxContentLen)

\* content.match(/\{[\s\S]*\}/): from the first "{" to the last "}"
RegexMatch(content) ==
  LET opens == {i \in 1..Len(content) : content[i] = LBrace}
      closes == {j \in 1..Len(content) : content[j] = RBrace}
      pairs == {<<i, j>> \in opens \X closes : i < j}
  IN IF pairs = {} THEN [found |-> FALSE, text |-> <<>>]
     ELSE LET i == CHOOSE a \in opens : \A b \in opens : a <= b
              j == CHOOSE a \in closes : \A b \in closes : b <= a
          IN [found |-> TRUE, text |-> SubSeq(content, i, j)]

\* A text is one JSON object when it is "{", members, "}".
IsObjectText(text) ==
  /\ Len(text) >= 2
  /\ text[1] = LBrace
  /\ text[Len(text)] = RBrace
  /\ \A i \in 2..(Len(text) - 1) : text[i].k \in FieldKeys

\* JSON.parse: throws on anything but one object; a repeated key keeps its
\* last value, a missing key reads as undefined.
JsonParse(text) ==
  IF ~IsObjectText(text)
    THEN [ok |-> FALSE, obj |-> [k \in FieldKeys |-> JUndef]]
    ELSE [ok |-> TRUE,
          obj |-> [k \in FieldKeys |->
                    LET at == {i \in 2..(Len(text) - 1) : text[i].k = k}
                    IN IF at = {} THEN JUndef
                       ELSE text[CHOOSE i \in at : \A j \in at : j <= i].val]]

DefaultPlan(msg) ==
  [searchQueries |-> JArr(<<msg>>), guestFilter |-> JNull,
   searchMode |-> JStr("broad"), intent |-> JStr(msg)]

NoPlan ==
  [searchQueries |-> JUndef, guestFilter |-> JUndef,
   searchMode |-> JUndef, intent |-> JUndef]

PlanFromParsed(msg, parsed) ==
  [searchQueries |-> JsOr(parsed.searchQueries, JArr(<<msg>>)),
   guestFilter |-> JsOr(parsed.guestFilter, JNull),
   searchMode |-> JsOr(parsed.searchMode, JStr("broad")),
   intent |-> JsOr(parsed.intent, JStr(msg))]

\* The same function without its try/catch around the fetch and the parse.
PlanSearchUncaught(msg, c) ==
  CASE c.kind = "nokey" -> [raised |-> FALSE, plan |-> DefaultPlan(msg)]
    [] c.kind = "throws" -> [raised |-> TRUE, plan |-> NoPlan]
    [] c.kind = "notok" -> [raised |-> FALSE, plan |-> DefaultPlan(msg)]
    [] c.kind = "badbody" -> [raised |-> TRUE, plan |-> NoPlan]
    [] OTHER ->
         LET m == RegexMatch(c.content)
             p == JsonParse(m.text)
         IN IF ~m.found THEN [raised |-> FALSE, plan |-> DefaultPlan(msg)]
            ELSE IF ~p.ok THEN [raised |-> TRUE, plan |-> NoPlan]
            ELSE [raised |-> FALSE, plan |-> PlanFromParsed(msg, p.obj)]

\* planSearch(message, history) for a completion call that did c:
\*   nokey    OPENAI_API_KEY is not set, no call is made
\*   throws   fetch rejects
\*   notok    the response status is not 2xx
\*   badbody  response.json() rejects
\*   ok       the body parses; c.content is choices[0].message.content || ""
PlanSearch(msg, c) ==
  CASE c.kind = "nokey" -> [raised |-> FALSE, plan |-> DefaultPlan(msg)]
    [] c.kind = "throws" -> [raised |-> FALSE, plan |-> DefaultPlan(msg)]
    [] c.kind = "notok" -> [raised |-> FALSE, plan |-> DefaultPlan(msg)]
    [] c.kind = "badbody" -> [raised |-> FALSE, plan |-> DefaultPlan(msg)]
    [] OTHER ->
         LET m == RegexMatch(c.content)
             p == JsonParse(m.text)
         IN IF m.found /\ p.ok
              THEN [raised |-> FALSE, plan |-> PlanFromParsed(msg, p.obj)]
              ELSE [raised |-> FALSE, plan |-> DefaultPlan(msg)]

ResultBudget == 20

NoArgs == [queries |-> JUndef, guestFilter |-> JUndef, limit |-> 0]

\* multiQuerySearch is not running
FuseIdle ==
  /\ fpc = "idle"
  /\ queries = <<>>
  /\ guestFilter = "none"
  /\ limit = 0
  /\ guestEpisodes = <<>>
  /\ filterEpisodeIds = [isNull |-> TRUE, ids |-> <<>>]
  /\ qi = 0
  /\ ei = 0
  /\ allChunks = <<>>
  /\ relevantEpisodeIds = <<>>
  /\ sortedChunks = <<>>
  /\ episodes = <<>>
  /\ returned = {}
  /\ calls = <<>>
  /\ embedFailed = {}
  /\ storeFailed = {}

\* planSearch is not running
PlanIdle ==
  /\ ppc = "idle"
  /\ message = "m"
  /\ completion = [kind |-> "pending", content |-> <<>>]
  /\ plan = NoPlan
  /\ mqsArgs = NoArgs

OrderIdle ==
  /\ opc = "idle"
  /\ oLists = <<>>
  /\ oPerm = <<>>
  /\ oLimit = 0
  /\ oStep = 0
  /\ oFirst = <<>>
  /\ oSecond = <<>>
  /\ oResults = <<>>

SourcesIdle ==
  /\ spc = "idle"
  /\ sChunks = <<>>
  /\ sEpisodes = {}
  /\ sources = <<>>

StreamIdle ==
  /\ stpc = "idle"
  /\ stSources = <<>>
  /\ gen = <<>>
  /\ enqueued = <<>>

\* no component of the chat endpoint is running
ChatIdle == PlanIdle /\ FuseIdle /\ OrderIdle /\ SourcesIdle /\ StreamIdle

\* handleSubmit is not running
ClientIdle ==
  /\ cpc = "idle"
  /\ cText = <<>>
  /\ cList = <<>>
  /\ pending = <<>>
  /\ assistantMessage = <<>>
  /\ isReadingSources = FALSE
  /\ sourcesBuffer = <<>>
  /\ clientSources = <<>>

\* POST is not running
ModeIdle ==
  /\ mpc = "idle"
  /\ mEpisodeId = JUndef
  /\ mStore = <<>>
  /\ mQueries = <<>>
  /\ context = <<>>
  /\ modeSources = <<>>
  /\ systemPrompt = <<>>
  /\ invoked = {}

\* the chunking loop is not running
ChunkIdle ==
  /\ kpc = "idle"
  /\ transcript = <<>>
  /\ kParagraphs = <<>>
  /\ kpi = 0
  /\ currentChunk = <<>>
  /\ chunkIndex = 0
  /\ currentTimestamp = [isNull |-> TRUE, text |-> <<>>]
  /\ currentSpeaker = [isNull |-> TRUE, text |-> <<>>]
  /\ kChunks = <<>>
  /\ holds = <<>>
  /\ chunkHolds = <<>>
  /\ emittedAt = <<>>

\* chunkTranscript is not running
RechunkIdle ==
  /\ rpc = "idle"
  /\ rTranscript = <<>>
  /\ rChunks = <<>>
  /\ rBatch = 0
  /\ chunksTable = <<>>
  /\ rRun = 0
  /\ rErrors = {}
  /\ afterFirst = <<>>

\* the search endpoint is not running
SearchIdle ==
  /\ xpc = "idle"
  /\ xType = "text"
  /\ xLimit = 0
  /\ xResults = <<>>
  /\ xResponse = <<>>
  /\ xHits = <<>>
  /\ semanticResults = <<>>
  /\ textRows = [ran |-> FALSE, rows |-> <<>>]

\* no request is being handled
RequestIdle ==
  /\ qpc = "idle"
  /\ qEndpoint = "chat"
  /\ qBody = <<>>
  /\ qCalls = <<>>
  /\ qResponse = [status |-> "", error |-> ""]

\* no response stream is open
HangupIdle ==
  /\ hpc = "idle"
  /\ hState = "readable"
  /\ hPulled = 0
  /\ hQueue = 0
  /\ hReleased = FALSE
  /\ hEnqueued = 0
  /\ hObserved = FALSE

\* textSearchEpisodes is not running
GuestIdle ==
  /\ gpc = "idle"
  /\ gQuery = <<>>
  /\ gLimit = 0
  /\ gTable = <<>>
  /\ gResult = <<>>
  /\ gRan = {}
  /\ gExact = <<>>

\* the rate limiter has not been called
RateIdle ==
  /\ rateLimitStore = <<>>
  /\ clock = 0
  /\ lastCall = <<>>
  /\ grants = <<>>
  /\ windows = <<>>
  /\ solo = <<>>

\* the embedding script is not running
EmbedIdle ==
  /\ bpc = "idle"
  /\ nullChunks = {}
  /\ neverEmbeds = {}
  /\ neverUpdates = {}
  /\ bBatch = <<>>
  /\ bIndex = 0
  /\ bUpdates = <<>>
  /\ processed = 0
  /\ bErrors = 0

\* handleSubmit of PodcastChat is not running
PodcastIdle ==
  /\ ypc = "idle"
  /\ yText = <<>>
  /\ yList = <<>>
  /\ yPending = <<>>
  /\ yMessage = <<>>
  /\ yDisplay = <<>>

LastIdle == RequestIdle /\ HangupIdle /\ GuestIdle /\ RateIdle /\ EmbedIdle /\ PodcastIdle

MidIdle ==
  ClientIdle /\ ModeIdle /\ ChunkIdle /\ RechunkIdle /\ SearchIdle

\* no component outside the chat endpoint is running
LaterIdle == MidIdle /\ LastIdle

InitPlan ==
  /\ LaterIdle
  /\ StreamIdle
  /\ SourcesIdle
  /\ FuseIdle
  /\ OrderIdle
  /\ ppc = "planning"
  /\ message \in Messages
  /\ completion = [kind |-> "pending", content |-> <<>>]
  /\ plan = NoPlan
  /\ mqsArgs = NoArgs

\* const searchPlan = await planSearch(message, history)
Planned(c) ==
  /\ ppc = "planning"
  /\ completion' = c
  /\ LET r == PlanSearch(message, c)
     IN /\ plan' = r.plan
        /\ ppc' = IF r.raised THEN "error500" ELSE "planned"
  /\ UNCHANGED <<message, mqsArgs, fuseVars, orderVars, sourceVars, streamVars, laterVars>>

PlanNoKey == Planned([kind |-> "nokey", content |-> <<>>])
PlanFetchThrows == Planned([kind |-> "throws", content |-> <<>>])
PlanNotOk == Planned([kind |-> "notok", content |-> <<>>])
PlanBadBody == Planned([kind |-> "badbody", content |-> <<>>])
PlanContent == \E content \in Contents : Planned([kind |-> "ok", content |-> content])

\* searchPlan.searchQueries.join(' | ') needs an array
HasJoin(j) == j.t = "arr"

\* POST, from the two console.log lines to the call of multiQuerySearch
PostSearch ==
  /\ ppc = "planned"
  /\ HasJoin(plan.searchQueries)
  /\ mqsArgs' = [queries |-> plan.searchQueries,
                 guestFilter |-> plan.guestFilter,
                 limit |-> ResultBudget]
  /\ ppc' = "searching"
  /\ UNCHANGED <<message, completion, plan, fuseVars, orderVars, sourceVars, streamVars, laterVars>>

\* the TypeError of .join lands in POST's catch: a 500 response
PostJoinTypeError ==
  /\ ppc = "planned"
  /\ ~HasJoin(plan.searchQueries)
  /\ ppc' = "error500"
  /\ UNCHANGED <<message, completion, plan, mqsArgs, fuseVars, orderVars, sourceVars, streamVars, laterVars>>

NextPlan ==
  \/ PlanNoKey
  \/ PlanFetchThrows
  \/ PlanNotOk
  \/ PlanBadBody
  \/ PlanContent
  \/ PostSearch
  \/ PostJoinTypeError

SpecPlan == InitPlan /\ [][NextPlan]_vars

\* A text contains a parseable JSON object when some stretch of it is one.
ContainsObject(content) ==
  \E i \in 1..Len(content) : \E j \in i..Len(content) :
     IsObjectText(SubSeq(content, i, j))

\* C4: when the planning call throws, answers non-OK, answers a body or a
\* text with no parseable JSON object in it, or no API key is configured,
\* planSearch returns the default plan for the message and does not raise.
PlannerFallback ==
  (/\ ppc # "planning"
   /\ \/ completion.kind \in {"nokey", "throws", "notok", "badbody"}
      \/ completion.kind = "ok" /\ ~ContainsObject(completion.content))
  => /\ plan = [searchQueries |-> JArr(<<message>>), guestFilter |-> JNull,
                searchMode |-> JStr("broad"), intent |-> JStr(message)]
     /\ ppc \in {"planned", "searching"}

\* a text with braces that JSON.parse rejects has been planned
PlannerFallbackWitness ==
  /\ ppc = "planned"
  /\ completion.kind = "ok"
  /\ RegexMatch(completion.content).found
  /\ ~ContainsObject(completion.content)

IsQueryList(j) == j.t = "arr" /\ Len(j.v) >= 1

\* C5: the plan planSearch returns, and the query list POST hands to
\* multiQuerySearch, is a non-empty list of query strings.
PlanHasQueries ==
  ppc = "searching" =>
    /\ IsQueryList(plan.searchQueries)
    /\ IsQueryList(mqsArgs.queries)

\* --------------------------------------------------------------------------
\* multiQuerySearch
\* --------------------------------------------------------------------------
MaxChunks == 2
MaxQueries == 3
MaxLimit == 2

\* match_threshold 0.1, in tenths
MatchThreshold == 1
BroadMatchCount == 10
EpisodeMatchCount == 8
GuestEpisodeLimit == 5

NoGuest == "none"
ChunkIds == 1..MaxChunks
\* the store holds two episodes, odd chunks of the first, even of the second
EpisodeIds == {1, 2}
EpisodeOf(c) == IF c % 2 = 1 THEN 1 ELSE 2
\* similarities the store computes, in tenths
Sims == {4, 8}

ChunkMatch(c, sim) == [id |-> c, episode_id |-> EpisodeOf(c), similarity |-> sim]

Range(f) == {f[i] : i \in DOMAIN f}
Min2(a, b) == IF a <= b THEN a ELSE b

\* match_chunks(query_embedding, 0.1, matchCount, ep): rows of the episode
\* (ep = 0: of any episode) above the threshold, nearest first, at most
\* matchCount of them. Which rows and which similarities is the store's.
MatchChunksResults(ep, matchCount) ==
  LET rows == {c \in ChunkIds : ep = 0 \/ EpisodeOf(c) = ep}
      all == {ChunkMatch(c, sim) : c \in rows, sim \in {x \in Sims : x > MatchThreshold}}
      lists == SeqsUpTo(all, Min2(matchCount, Cardinality(rows)))
  IN {l \in lists :
        /\ \A i, j \in 1..Len(l) : i < j => l[i].id # l[j].id
        /\ \A i \in 1..(Len(l) - 1) : l[i].similarity >= l[i + 1].similarity}

\* what searchChunks(supabase, embedding, undefined, 10) can return
BroadResults == MatchChunksResults(0, BroadMatchCount)
\* what searchChunks(supabase, embedding, epId, 8) can return
EpisodeResults == [ep \in EpisodeIds |-> MatchChunksResults(ep, EpisodeMatchCount)]

\* textSearchEpisodes(supabase, guestFilter, 5): at most 5 distinct episodes
TextSearchResults ==
  {l \in SeqsUpTo(EpisodeIds, Min2(GuestEpisodeLimit, Cardinality(EpisodeIds))) :
     \A i, j \in 1..Len(l) : i < j => l[i] # l[j]}

\* Map.has / Map.get / Map.set on the entries in insertion order
MapHas(m, id) == \E i \in 1..Len(m) : m[i].id = id
MapGet(m, id) == m[CHOOSE i \in 1..Len(m) : m[i].id = id]
MapSet(m, chunk) ==
  IF MapHas(m, chunk.id)
    THEN [i \in 1..Len(m) |-> IF m[i].id = chunk.id THEN chunk ELSE m[i]]
    ELSE Append(m, chunk)
\* Set.add
SetAdd(st, x) == IF x \in Range(st) THEN st ELSE Append(st, x)

\* the same test keeping the entry seen last
KeepsLastSeen(m, chunk) == TRUE

\* !allChunks.has(chunk.id) || chunk.similarity > allChunks.get(chunk.id).similarity
Replaces(m, chunk) ==
  ~MapHas(m, chunk.id) \/ chunk.similarity > MapGet(m, chunk.id).similarity

\* the loop over one search's chunks; acc is [all, rel]
RECURSIVE MergeChunks(_, _)
MergeChunks(acc, chunks) ==
  IF chunks = <<>> THEN acc
  ELSE LET chunk == Head(chunks)
           nxt == IF Replaces(acc.all, chunk)
                    THEN [all |-> MapSet(acc.all, chunk),
                          rel |-> SetAdd(acc.rel, chunk.episode_id)]
                    ELSE acc
       IN MergeChunks(nxt, Tail(chunks))

\* the comparator with its operands swapped
ComesBeforeAscending(a, b) == a.similarity - b.similarity < 0

\* (a, b) => b.similarity - a.similarity is negative: a sorts before b
ComesBefore(a, b) == b.similarity - a.similarity < 0

\* Array.prototype.sort is stable: an element moves in front of exactly the
\* elements it compares before
RECURSIVE InsertSorted(_, _)
InsertSorted(sorted, x) ==
  IF sorted = <<>> THEN <<x>>
  ELSE LET last == sorted[Len(sorted)]
       IN IF ComesBefore(x, last)
            THEN Append(InsertSorted(SubSeq(sorted, 1, Len(sorted) - 1), x), last)
            ELSE Append(sorted, x)

RECURSIVE SortChunks(_)
SortChunks(list) ==
  IF list = <<>> THEN <<>>
  ELSE InsertSorted(SortChunks(SubSeq(list, 1, Len(list) - 1)), list[Len(list)])

\* .slice(0, n)
Slice(list, n) == SubSeq(list, 1, Min2(n, Len(list)))

\* the assignment only for a non-empty list, as an array is always truthy
ResolveFilterAlways(eps) == [isNull |-> FALSE, ids |-> eps]

\* if (guestEpisodes.length > 0) filterEpisodeIds = guestEpisodes.map(e => e.id)
ResolveFilter(eps) ==
  IF Len(eps) > 0 THEN [isNull |-> FALSE, ids |-> eps]
  ELSE [isNull |-> TRUE, ids |-> <<>>]

\* a catch that leaves the loop
AfterFailedQueryAbort(i, n) == n + 1

\* catch (error) { console.error(...) }: on to the next query
AfterFailedQuery(i, n) == i + 1

QueryLists == {[i \in 1..n |-> i] : n \in 0..MaxQueries}

InitFuse ==
  /\ LaterIdle
  /\ StreamIdle
  /\ SourcesIdle
  /\ PlanIdle
  /\ OrderIdle
  /\ fpc = "resolve"
  /\ queries \in QueryLists
  /\ guestFilter \in {NoGuest, "Brian Chesky"}
  /\ limit \in 1..MaxLimit
  /\ guestEpisodes = <<>>
  /\ filterEpisodeIds = [isNull |-> TRUE, ids |-> <<>>]
  /\ qi = 1
  /\ ei = 0
  /\ allChunks = <<>>
  /\ relevantEpisodeIds = <<>>
  /\ sortedChunks = <<>>
  /\ episodes = <<>>
  /\ returned = {}
  /\ calls = <<>>
  /\ embedFailed = {}
  /\ storeFailed = {}

\* if (guestFilter) is false
NoGuestFilter ==
  /\ fpc = "resolve"
  /\ guestFilter = NoGuest
  /\ fpc' = "loop"
  /\ UNCHANGED <<queries, guestFilter, limit, guestEpisodes, filterEpisodeIds,
                 qi, ei, allChunks, relevantEpisodeIds, sortedChunks, episodes,
                 returned, calls, embedFailed, storeFailed, planVars, orderVars, sourceVars, streamVars, laterVars>>

\* const guestEpisodes = await textSearchEpisodes(supabase, guestFilter, 5)
ResolveGuest ==
  /\ fpc = "resolve"
  /\ guestFilter # NoGuest
  /\ \E eps \in TextSearchResults :
       /\ guestEpisodes' = eps
       /\ filterEpisodeIds' = ResolveFilter(eps)
  /\ fpc' = "loop"
  /\ UNCHANGED <<queries, guestFilter, limit, qi, ei, allChunks,
                 relevantEpisodeIds, sortedChunks, episodes,
                 returned, calls, embedFailed, storeFailed, planVars, orderVars, sourceVars, streamVars, laterVars>>

\* getEmbedding(query) throws: the catch logs and the loop goes on
EmbeddingFails ==
  /\ fpc = "loop"
  /\ qi <= Len(queries)
  /\ ei = 0
  /\ embedFailed' = embedFailed \cup {qi}
  /\ qi' = AfterFailedQuery(qi, Len(queries))
  /\ UNCHANGED <<fpc, queries, guestFilter, limit, guestEpisodes,
                 filterEpisodeIds, ei, allChunks, relevantEpisodeIds,
                 sortedChunks, episodes, returned, calls, storeFailed, planVars, orderVars, sourceVars, streamVars, laterVars>>

\* the effect of one searchChunks call that returned chunks
Merged(ep, chunks) ==
  LET acc == MergeChunks([all |-> allChunks, rel |-> relevantEpisodeIds], chunks)
  IN /\ allChunks' = acc.all
     /\ relevantEpisodeIds' = acc.rel
     /\ returned' = returned \cup {<<c.id, c.similarity>> : c \in Range(chunks)}
     /\ calls' = Append(calls, [q |-> qi, ep |-> ep])

\* the embedding arrives and the broad search returns rows
BroadSearch ==
  /\ fpc = "loop"
  /\ qi <= Len(queries)
  /\ ei = 0
  /\ filterEpisodeIds.isNull
  /\ \E chunks \in BroadResults : Merged(0, chunks)
  /\ qi' = qi + 1
  /\ UNCHANGED <<fpc, queries, guestFilter, limit, guestEpisodes,
                 filterEpisodeIds, ei, sortedChunks, episodes,
                 embedFailed, storeFailed, planVars, orderVars, sourceVars, streamVars, laterVars>>

\* the embedding arrives and the store reports an error: searchChunks gives []
BroadSearchError ==
  /\ fpc = "loop"
  /\ qi <= Len(queries)
  /\ ei = 0
  /\ filterEpisodeIds.isNull
  /\ Merged(0, <<>>)
  /\ storeFailed' = storeFailed \cup {[q |-> qi, ep |-> 0]}
  /\ qi' = qi + 1
  /\ UNCHANGED <<fpc, queries, guestFilter, limit, guestEpisodes,
                 filterEpisodeIds, ei, sortedChunks, episodes,
                 embedFailed, planVars, orderVars, sourceVars, streamVars, laterVars>>

\* the embedding arrives for a guest-filtered search
EmbeddingForEpisodes ==
  /\ fpc = "loop"
  /\ qi <= Len(queries)
  /\ ei = 0
  /\ ~filterEpisodeIds.isNull
  /\ IF Len(filterEpisodeIds.ids) = 0
       THEN qi' = qi + 1 /\ ei' = 0
       ELSE qi' = qi /\ ei' = 1
  /\ UNCHANGED <<fpc, queries, guestFilter, limit, guestEpisodes,
                 filterEpisodeIds, allChunks, relevantEpisodeIds, sortedChunks,
                 episodes, returned, calls, embedFailed, storeFailed, planVars, orderVars, sourceVars, streamVars, laterVars>>

\* a loop over the candidates that is left after the first of them
NextEpisodeFirstOnly == qi' = qi + 1 /\ ei' = 0

\* the step of for (const epId of filterEpisodeIds) after one search
NextEpisode ==
  IF ei < Len(filterEpisodeIds.ids)
    THEN qi' = qi /\ ei' = ei + 1
    ELSE qi' = qi + 1 /\ ei' = 0

\* searchChunks(supabase, embedding, epId, 8) returns rows
EpisodeSearch ==
  /\ fpc = "loop"
  /\ ei >= 1
  /\ \E chunks \in EpisodeResults[filterEpisodeIds.ids[ei]] :
       Merged(filterEpisodeIds.ids[ei], chunks)
  /\ NextEpisode
  /\ UNCHANGED <<fpc, queries, guestFilter, limit, guestEpisodes,
                 filterEpisodeIds, sortedChunks, episodes,
                 embedFailed, storeFailed, planVars, orderVars, sourceVars, streamVars, laterVars>>

\* the store reports an error for one episode's search
EpisodeSearchError ==
  /\ fpc = "loop"
  /\ ei >= 1
  /\ Merged(filterEpisodeIds.ids[ei], <<>>)
  /\ storeFailed' = storeFailed \cup {[q |-> qi, ep |-> filterEpisodeIds.ids[ei]]}
  /\ NextEpisode
  /\ UNCHANGED <<fpc, queries, guestFilter, limit, guestEpisodes,
                 filterEpisodeIds, sortedChunks, episodes, embedFailed, planVars, orderVars, sourceVars, streamVars, laterVars>>

\* after the loop: sort, slice, fetch the episode details, return.
\* getEpisodeDetails gives the rows of the ids, or [] when the store fails.
FinishSearch ==
  /\ fpc = "loop"
  /\ qi > Len(queries)
  /\ sortedChunks' = Slice(SortChunks(allChunks), limit)
  /\ \E detailsOk \in BOOLEAN :
       episodes' = IF Len(relevantEpisodeIds) > 0 /\ detailsOk
                     THEN relevantEpisodeIds ELSE <<>>
  /\ fpc' = "done"
  /\ UNCHANGED <<queries, guestFilter, limit, guestEpisodes, filterEpisodeIds,
                 qi, ei, allChunks, relevantEpisodeIds,
                 returned, calls, embedFailed, storeFailed, planVars, orderVars, sourceVars, streamVars, laterVars>>

NextFuse ==
  \/ NoGuestFilter
  \/ ResolveGuest
  \/ EmbeddingFails
  \/ BroadSearch
  \/ BroadSearchError
  \/ EmbeddingForEpisodes
  \/ EpisodeSearch
  \/ EpisodeSearchError
  \/ FinishSearch

SpecFuse == InitFuse /\ [][NextFuse]_vars

\* the largest similarity any search returned for the chunk
MaxReturned(id) ==
  LET sims == {p[2] : p \in {r \in returned : r[1] = id}}
  IN CHOOSE x \in sims : \A y \in sims : y <= x

NoDuplicateIds(list) ==
  \A i, j \in 1..Len(list) : i < j => list[i].id # list[j].id

\* C1: a chunk id occurs at most once in the fused map and in the returned
\* list, with the largest similarity any query's search returned for it.
FusionMaxPooling ==
  /\ NoDuplicateIds(allChunks)
  /\ \A i \in 1..Len(allChunks) :
       allChunks[i].similarity = MaxReturned(allChunks[i].id)
  /\ fpc = "done" =>
       /\ NoDuplicateIds(sortedChunks)
       /\ \A i \in 1..Len(sortedChunks) :
            sortedChunks[i].similarity = MaxReturned(sortedChunks[i].id)

\* a returned chunk that searches reported with 0.4 and with 0.8
FusionMaxPoolingWitness ==
  /\ fpc = "done"
  /\ \E i \in 1..Len(sortedChunks) :
       /\ <<sortedChunks[i].id, 4>> \in returned
       /\ <<sortedChunks[i].id, 8>> \in returned

\* C3: the returned list is in non-increasing order of similarity, has at
\* most limit entries, is as long as the budget and the collected chunks
\* allow, and omits no chunk of higher similarity than one it returns.
FusionRankedTopLimit ==
  fpc = "done" =>
    /\ \A i \in 1..(Len(sortedChunks) - 1) :
         sortedChunks[i].similarity >= sortedChunks[i + 1].similarity
    /\ Len(sortedChunks) <= limit
    /\ Len(sortedChunks) = Min2(limit, Len(allChunks))
    /\ Range(sortedChunks) \subseteq Range(allChunks)
    /\ \A omitted \in Range(allChunks) \ Range(sortedChunks) :
         \A kept \in Range(sortedChunks) : omitted.similarity <= kept.similarity

\* more chunks than the budget, of different similarities
FusionRankedTopLimitWitness ==
  /\ fpc = "done"
  /\ Len(allChunks) > limit
  /\ \E a, b \in Range(allChunks) : a.similarity < b.similarity

\* the calls of a run without guest filter: one broad search per query whose
\* embedding arrived, in query order
BroadCalls ==
  LET idx == SelectSeq([i \in 1..Len(queries) |-> i], LAMBDA i : i \notin embedFailed)
  IN [k \in 1..Len(idx) |-> [q |-> idx[k], ep |-> 0]]

\* C6: a guest filter that textSearchEpisodes resolves to no episode leaves
\* filterEpisodeIds null, and the run makes the calls of an unfiltered run.
GuestFilterFallback ==
  (guestFilter # NoGuest /\ fpc \in {"loop", "done"} /\ guestEpisodes = <<>>)
  => /\ filterEpisodeIds.isNull
     /\ \A k \in 1..Len(calls) : calls[k].ep = 0
     /\ fpc = "done" => calls = BroadCalls

\* an unresolved guest filter, and chunks returned all the same
GuestFilterFallbackWitness ==
  /\ fpc = "done"
  /\ guestFilter # NoGuest
  /\ guestEpisodes = <<>>
  /\ Len(queries) = MaxQueries
  /\ Len(sortedChunks) > 0

\* every search of query i that was made reported a store error
AllSearchesFailed(i) ==
  \A k \in 1..Len(calls) : calls[k].q = i => calls[k] \in storeFailed

\* C7: a failed embedding or store query does not end the run: every query
\* is tried, what the other searches returned is in the fused map (and in
\* the returned list when the budget allows), and when every query failed
\* the run returns no chunk and no episode.
FailureIsolation ==
  fpc = "done" =>
    /\ \A i \in 1..Len(queries) :
         i \in embedFailed \/ \E k \in 1..Len(calls) : calls[k].q = i
    /\ \A r \in returned :
         /\ MapHas(allChunks, r[1])
         /\ MapGet(allChunks, r[1]).similarity >= r[2]
         /\ Len(allChunks) <= limit => MapHas(sortedChunks, r[1])
    /\ (\A i \in 1..Len(queries) : i \in embedFailed \/ AllSearchesFailed(i))
         => sortedChunks = <<>> /\ episodes = <<>>

\* a query after a failed one contributed a chunk
FailureIsolationWitness ==
  /\ fpc = "done"
  /\ \E i \in embedFailed : \E k \in 1..Len(calls) : calls[k].q > i
  /\ storeFailed # {}
  /\ Len(sortedChunks) > 0

\* --------------------------------------------------------------------------
\* the fusion loop run twice over the same result lists
\* --------------------------------------------------------------------------
Orders(n) ==
  {f \in [1..n -> 1..n] : \A i, j \in 1..n : i # j => f[i] # f[j]}

InitOrder ==
  /\ LaterIdle
  /\ StreamIdle
  /\ SourcesIdle
  /\ PlanIdle
  /\ FuseIdle
  /\ opc = "loop"
  /\ \E n \in 2..MaxQueries :
       /\ oLists \in [1..n -> BroadResults]
       /\ oPerm \in Orders(n)
  /\ oLimit \in 1..MaxLimit
  /\ oStep = 0
  /\ oFirst = <<>>
  /\ oSecond = <<>>
  /\ oResults = <<>>

\* each run merges its next result list (lines 326-331)
OrderMerge ==
  /\ opc = "loop"
  /\ oStep < Len(oLists)
  /\ oStep' = oStep + 1
  /\ oFirst' = MergeChunks([all |-> oFirst, rel |-> <<>>], oLists[oStep + 1]).all
  /\ oSecond' = MergeChunks([all |-> oSecond, rel |-> <<>>], oLists[oPerm[oStep + 1]]).all
  /\ UNCHANGED <<opc, oLists, oPerm, oLimit, oResults, planVars, fuseVars, sourceVars, streamVars, laterVars>>

\* each run sorts and slices (lines 339-341)
OrderFinish ==
  /\ opc = "loop"
  /\ oStep = Len(oLists)
  /\ oResults' = <<Slice(SortChunks(oFirst), oLimit), Slice(SortChunks(oSecond), oLimit)>>
  /\ opc' = "done"
  /\ UNCHANGED <<oLists, oPerm, oLimit, oStep, oFirst, oSecond, planVars, fuseVars, sourceVars, streamVars, laterVars>>

NextOrder == OrderMerge \/ OrderFinish

SpecOrder == InitOrder /\ [][NextOrder]_vars

\* C2: whatever the order in which the result lists are merged, the ranked,
\* truncated chunk list is the same.
FusionOrderIndependent ==
  opc = "done" => oResults[1] = oResults[2]

\* --------------------------------------------------------------------------
\* the source list (POST, global mode)
\* --------------------------------------------------------------------------
MaxTimestamped == 3
MaxRanked == 6
SourceCap == 5

\* UTF-16 code units of the characters timestamps and the range are made of
Code(ch) ==
  CASE ch = " " -> 32 [] ch = "-" -> 45 [] ch = ":" -> 58 [] ch = "," -> 44
    [] ch = "_" -> 95 [] ch = "S" -> 83 [] ch = "O" -> 79 [] ch = "U" -> 85
    [] ch = "R" -> 82 [] ch = "C" -> 67 [] ch = "E" -> 69 [] ch = "[" -> 91
    [] ch = "]" -> 93 [] ch = "{" -> 123 [] ch = "}" -> 125 [] ch = "a" -> 97
    [] ch = "b" -> 98 [] ch = "e" -> 101 [] ch = "t" -> 116
    [] ch = "0" -> 48 [] ch = "1" -> 49 [] ch = "2" -> 50 [] ch = "3" -> 51
    [] ch = "4" -> 52 [] ch = "5" -> 53 [] ch = "6" -> 54 [] ch = "7" -> 55
    [] ch = "8" -> 56 [] ch = "9" -> 57
    [] ch = "LF" -> 10 [] ch = "(" -> 40 [] ch = ")" -> 41
Str(chars) == [i \in DOMAIN chars |-> Code(chars[i])]

\* start_timestamp null
NoTimestamp == <<>>
\* start_timestamp values of stored chunks: what the chunker's pattern
\* \d{1,2}:\d{2}(?::\d{2})? captured
Timestamps ==
  {Str(<<"1", ":", "0", "0">>), Str(<<"3", ":", "1", "5">>),
   Str(<<"5", ":", "3", "0">>), Str(<<"9", ":", "0", "0">>),
   Str(<<"1", "0", ":", "0", "0">>), Str(<<"0", ":", "5", "9", ":", "5", "9">>),
   Str(<<"1", ":", "0", "0", ":", "3", "0">>)}

SourceEpisodes == 1..6

\* ranked chunk lists: of two episodes with all kinds of timestamps, and of
\* many episodes without timestamps
TimestampedLists ==
  SeqsUpTo([episode_id : {1, 2}, start_timestamp : Timestamps \cup {NoTimestamp}],
           MaxTimestamped)
EpisodeLists ==
  SeqsUpTo([episode_id : SourceEpisodes, start_timestamp : {NoTimestamp}], MaxRanked)

\* a < b for strings, as Array.prototype.sort() without comparator orders them
StrLess(a, b) ==
  \E k \in 1..(Len(b)) :
    /\ \A i \in 1..(k - 1) : i <= Len(a) /\ a[i] = b[i]
    /\ k > Len(a) \/ a[k] < b[k]

RECURSIVE InsertString(_, _)
InsertString(sorted, x) ==
  IF sorted = <<>> THEN <<x>>
  ELSE LET last == sorted[Len(sorted)]
       IN IF StrLess(x, last)
            THEN Append(InsertString(SubSeq(sorted, 1, Len(sorted) - 1), x), last)
            ELSE Append(sorted, x)

\* src.timestamps.sort()
RECURSIVE SortStrings(_)
SortStrings(list) ==
  IF list = <<>> THEN <<>>
  ELSE InsertString(SortStrings(SubSeq(list, 1, Len(list) - 1)), list[Len(list)])

Undefined == [defined |-> FALSE, text |-> <<>>]
Defined(text) == [defined |-> TRUE, text |-> text]

\* the first and the last timestamp as collected, without the sort
TimestampOfUnsorted(timestamps) ==
  IF Len(timestamps) > 1
    THEN Defined(timestamps[1] \o Str(<<" ", "-", " ">>) \o timestamps[Len(timestamps)])
  ELSE IF Len(timestamps) = 1 THEN Defined(timestamps[1])
  ELSE Undefined

\* lines 454-460: the citation's timestamp
TimestampOf(timestamps) ==
  IF Len(timestamps) > 1
    THEN LET sorted == SortStrings(timestamps)
         IN Defined(sorted[1] \o Str(<<" ", "-", " ">>) \o sorted[Len(sorted)])
  ELSE IF Len(timestamps) = 1 THEN Defined(timestamps[1])
  ELSE Undefined

EntryHas(m, ep) == \E i \in 1..Len(m) : m[i].episodeId = ep

\* lines 434-451: episodeSourceMap, as its entries in insertion order
RECURSIVE EpisodeSourceMap(_, _, _)
EpisodeSourceMap(m, chunks, eps) ==
  IF chunks = <<>> THEN m
  ELSE LET chunk == Head(chunks)
           m1 == IF EntryHas(m, chunk.episode_id) THEN m
                 ELSE Append(m, [episodeId |-> chunk.episode_id, timestamps |-> <<>>])
           m2 == IF chunk.start_timestamp # <<>>
                   THEN [i \in 1..Len(m1) |->
                          IF m1[i].episodeId = chunk.episode_id
                            THEN [m1[i] EXCEPT !.timestamps = Append(@, chunk.start_timestamp)]
                            ELSE m1[i]]
                   ELSE m1
       IN IF chunk.episode_id \notin eps
            THEN EpisodeSourceMap(m, Tail(chunks), eps)
            ELSE EpisodeSourceMap(m2, Tail(chunks), eps)

\* every entry of the map
CitedEntriesUncapped(m) == m

\* Array.from(episodeSourceMap.values()).slice(0, 5)
CitedEntries(m) == Slice(m, SourceCap)

\* lines 453-469
BuildSources(chunks, eps) ==
  LET cited == CitedEntries(EpisodeSourceMap(<<>>, chunks, eps))
  IN [i \in 1..Len(cited) |->
        [episodeId |-> cited[i].episodeId,
         timestamp |-> TimestampOf(cited[i].timestamps)]]

\* JSON.stringify of one citation: a property that is undefined is left out
JsonSource(src) ==
  IF src.timestamp.defined
    THEN [episodeId |-> src.episodeId, timestamp |-> src.timestamp.text]
    ELSE [episodeId |-> src.episodeId]

EpisodesOf(chunks) == {chunks[i].episode_id : i \in 1..Len(chunks)}

\* multiQuerySearch has returned: chunks, and the details of their episodes
\* (none when getEpisodeDetails got no rows from the store)
InitSources ==
  /\ LaterIdle
  /\ StreamIdle
  /\ PlanIdle
  /\ FuseIdle
  /\ OrderIdle
  /\ spc = "searched"
  /\ sChunks \in TimestampedLists \cup EpisodeLists
  /\ sEpisodes \in {EpisodesOf(sChunks), {}}
  /\ sources = <<>>

AssembleSources ==
  /\ spc = "searched"
  /\ sources' = BuildSources(sChunks, sEpisodes)
  /\ spc' = "assembled"
  /\ UNCHANGED <<sChunks, sEpisodes, planVars, fuseVars, orderVars, streamVars, laterVars>>

NextSources == AssembleSources

SpecSources == InitSources /\ [][NextSources]_vars

\* the timestamps of the episode's chunks among the fused chunks, in order
TimestampsOfEpisode(ep) ==
  LET own == SelectSeq(sChunks,
               LAMBDA c : c.episode_id = ep /\ c.start_timestamp # NoTimestamp)
  IN [i \in 1..Len(own) |-> own[i].start_timestamp]

\* the time a timestamp H:MM or H:MM:SS denotes, in seconds
Digit(code) == code - 48
Number(ts, i, j) == IF i = j THEN Digit(ts[i]) ELSE 10 * Digit(ts[i]) + Digit(ts[j])
Colons(ts) == {i \in 1..Len(ts) : ts[i] = 58}
Seconds(ts) ==
  LET c1 == CHOOSE i \in Colons(ts) : \A j \in Colons(ts) : i <= j
      c2 == CHOOSE i \in Colons(ts) : \A j \in Colons(ts) : j <= i
  IN IF c1 = c2
       THEN 3600 * Number(ts, 1, c1 - 1) + 60 * Number(ts, c1 + 1, Len(ts))
       ELSE 3600 * Number(ts, 1, c1 - 1) + 60 * Number(ts, c1 + 1, c2 - 1)
            + Number(ts, c2 + 1, Len(ts))

Earliest(S) == CHOOSE x \in S : \A y \in S : Seconds(x) <= Seconds(y)
Latest(S) == CHOOSE x \in S : \A y \in S : Seconds(y) <= Seconds(x)
LeastString(S) == CHOOSE x \in S : \A y \in S : x = y \/ StrLess(x, y)
GreatestString(S) == CHOOSE x \in S : \A y \in S : x = y \/ StrLess(y, x)
\* the same digits-and-colons layout
SameShape(S) == \A x, y \in S : Len(x) = Len(y) /\ Colons(x) = Colons(y)

RangeText(a, b) == a \o <<32, 45, 32>> \o b

\* one timestamp, or none, among the episode's chunks
FewTimestamps(src) ==
  LET ts == TimestampsOfEpisode(src.episodeId)
  IN /\ Len(ts) = 1 => src.timestamp = [defined |-> TRUE, text |-> ts[1]]
     /\ Len(ts) = 0 =>
          /\ ~src.timestamp.defined
          /\ "timestamp" \notin DOMAIN JsonSource(src)
     /\ Len(ts) >= 1 => "timestamp" \in DOMAIN JsonSource(src)

\* C8 as stated: with two or more timestamped chunks the citation's
\* timestamp is "<earliest> - <latest>" of them, whatever their format;
\* with one it is that one; with none there is no timestamp field.
SourceTimestampEarliestLatest ==
  spc = "assembled" =>
    \A i \in 1..Len(sources) :
      LET ts == TimestampsOfEpisode(sources[i].episodeId)
      IN /\ FewTimestamps(sources[i])
         /\ Len(ts) >= 2 =>
              sources[i].timestamp =
                [defined |-> TRUE,
                 text |-> RangeText(Earliest(Range(ts)), Latest(Range(ts)))]

\* C8 amended: with two or more timestamped chunks the citation's timestamp
\* is "<first> - <last>" of them in string order, which is earliest and
\* latest when they all have the same layout; with one it is that one; with
\* none there is no timestamp field.
SourceTimestampStringOrder ==
  spc = "assembled" =>
    \A i \in 1..Len(sources) :
      LET ts == TimestampsOfEpisode(sources[i].episodeId)
      IN /\ FewTimestamps(sources[i])
         /\ Len(ts) >= 2 =>
              /\ sources[i].timestamp =
                   [defined |-> TRUE,
                    text |-> RangeText(LeastString(Range(ts)), GreatestString(Range(ts)))]
              /\ SameShape(Range(ts)) =>
                   /\ LeastString(Range(ts)) = Earliest(Range(ts))
                   /\ GreatestString(Range(ts)) = Latest(Range(ts))

\* chunks at "1:00", "5:30", "3:15" of one episode, cited as "1:00 - 5:30"
SourceTimestampWitness ==
  /\ spc = "assembled"
  /\ Len(sources) = 1
  /\ TimestampsOfEpisode(sources[1].episodeId) =
       <<Str(<<"1", ":", "0", "0">>), Str(<<"5", ":", "3", "0">>),
         Str(<<"3", ":", "1", "5">>)>>
  /\ sources[1].timestamp.text =
       Str(<<"1", ":", "0", "0", " ", "-", " ", "5", ":", "3", "0">>)

\* the episodes of a chunk list, each once, in order of first appearance
FirstAppearance(chunks) ==
  LET idx == SelectSeq([i \in 1..Len(chunks) |-> i],
               LAMBDA i : \A j \in 1..(i - 1) : chunks[j].episode_id # chunks[i].episode_id)
  IN [k \in 1..Len(idx) |-> chunks[idx[k]].episode_id]

CitedEpisodes == [i \in 1..Len(sources) |-> sources[i].episodeId]

AtMostCapDistinct ==
  /\ Len(sources) <= 5
  /\ \A i, j \in 1..Len(sources) : i < j => sources[i].episodeId # sources[j].episodeId

\* C9 as stated: at most 5 citations, no episode twice, one per distinct
\* episode of the fused chunks in order of first appearance, up to the cap.
SourcesOnePerEpisode ==
  spc = "assembled" =>
    /\ AtMostCapDistinct
    /\ CitedEpisodes = Slice(FirstAppearance(sChunks), 5)

\* C9 amended: at most 5 citations, no episode twice, one per distinct
\* episode of the fused chunks whose details getEpisodeDetails returned, in
\* order of first appearance, up to the cap.
SourcesOnePerKnownEpisode ==
  spc = "assembled" =>
    /\ AtMostCapDistinct
    /\ CitedEpisodes =
         Slice(FirstAppearance(SelectSeq(sChunks, LAMBDA c : c.episode_id \in sEpisodes)), 5)

\* six episodes among the chunks, a repeated one, not in order of their ids
SourcesWitness ==
  /\ spc = "assembled"
  /\ Cardinality(EpisodesOf(sChunks)) = 6
  /\ sEpisodes = EpisodesOf(sChunks)
  /\ sChunks[1].episode_id = 3
  /\ Len(sources) = 5

\* --------------------------------------------------------------------------
\* the response stream (POST, lines 524-545)
\* --------------------------------------------------------------------------
MaxTokens == 3

\* text deltas of the completion
Tokens == {Str(<<"a">>), Str(<<"b">>), Str(<<"_">>)}

Marker == Str(<<"_", "_", "S", "O", "U", "R", "C", "E", "S", "_", "_">>)

\* JSON.stringify(sources), every citation cut down to {e<id>} or
\* {e<id>,t<timestamp>}
RECURSIVE JsonItems(_)
JsonItems(list) ==
  IF list = <<>> THEN <<>>
  ELSE LET j == JsonSource(Head(list))
           item == Str(<<"{", "e">>) \o <<48 + j.episodeId>>
                   \o (IF "timestamp" \in DOMAIN j
                         THEN Str(<<",", "t">>) \o j.timestamp ELSE <<>>)
                   \o Str(<<"}">>)
       IN item \o (IF Tail(list) = <<>> THEN <<>> ELSE Str(<<",">>)) \o JsonItems(Tail(list))
JsonStringify(list) == Str(<<"[">>) \o JsonItems(list) \o Str(<<"]">>)

\* the source list without the marker in front
SourcesChunkBare(list) == JsonStringify(list)

\* encoder.encode("__SOURCES__" + JSON.stringify(sources))
SourcesChunk(list) == Marker \o JsonStringify(list)

\* source lists of a request: none, one without and one with a timestamp
StreamSourceLists ==
  {BuildSources(c, EpisodesOf(c)) :
     c \in SeqsUpTo([episode_id : {1}, start_timestamp :
                       {NoTimestamp, Str(<<"1", ":", "0", "0">>)}], 1)}

InitStream ==
  /\ LaterIdle
  /\ PlanIdle
  /\ FuseIdle
  /\ OrderIdle
  /\ SourcesIdle
  /\ stpc = "streaming"
  /\ stSources \in StreamSourceLists
  /\ gen = <<>>
  /\ enqueued = <<>>

\* one turn of for await (const chunk of textStream): enqueue the delta
EnqueueToken ==
  /\ stpc = "streaming"
  /\ Len(gen) < MaxTokens
  /\ \E t \in Tokens :
       /\ gen' = Append(gen, t)
       /\ enqueued' = Append(enqueued, t)
  /\ UNCHANGED <<stpc, stSources, planVars, fuseVars, orderVars, sourceVars, laterVars>>

\* the text stream is done: enqueue the sources chunk and close
FinishStream ==
  /\ stpc = "streaming"
  /\ enqueued' = Append(enqueued, SourcesChunk(stSources))
  /\ stpc' = "closed"
  /\ UNCHANGED <<stSources, gen, planVars, fuseVars, orderVars, sourceVars, laterVars>>

\* the text stream throws: start() rejects and the stream is errored
GenerationThrows ==
  /\ stpc = "streaming"
  /\ stpc' = "errored"
  /\ UNCHANGED <<stSources, gen, enqueued, planVars, fuseVars, orderVars, sourceVars, laterVars>>

NextStream == EnqueueToken \/ FinishStream \/ GenerationThrows

SpecStream == InitStream /\ [][NextStream]_vars

\* C10: while the text stream runs, the chunks enqueued are its deltas in
\* order and nothing else; a closed stream holds all the deltas and then one
\* chunk, the marker followed by the serialised source list; nothing follows.
ResponseFraming ==
  /\ stpc \in {"streaming", "errored"} => enqueued = gen
  /\ stpc = "closed" =>
       /\ Len(enqueued) = Len(gen) + 1
       /\ SubSeq(enqueued, 1, Len(gen)) = gen
       /\ enqueued[Len(enqueued)] = Marker \o JsonStringify(stSources)

\* a closed stream of three deltas and a citation with a timestamp
ResponseFramingWitness ==
  /\ stpc = "closed"
  /\ Len(gen) = 3
  /\ Len(stSources) = 1
  /\ stSources[1].timestamp.defined

\* --------------------------------------------------------------------------
\* the global chat page reading the response
\* (src/src/app/chat/page.tsx, handleSubmit, lines 61-148)
\* --------------------------------------------------------------------------
MaxTextLen == 2
MaxCuts == 2

\* U+00E9, a character of two bytes in UTF-8
EAcute == <<233>>

\* generated texts: up to MaxTextLen of the characters a, _ and e-acute
ClientTexts == SeqsUpTo({Code("a"), Code("_"), EAcute[1]}, MaxTextLen)

\* encoder.encode(text): UTF-8, for code units below U+0800
RECURSIVE Utf8Encode(_)
Utf8Encode(text) ==
  IF text = <<>> THEN <<>>
  ELSE LET c == Head(text)
       IN (IF c < 128 THEN <<c>> ELSE <<192 + (c \div 64), 128 + (c % 64)>>)
          \o Utf8Encode(Tail(text))

\* decoder.decode(value): every call decodes its bytes on their own (no
\* {stream: true}), an incomplete or stray byte becomes U+FFFD
RECURSIVE Utf8Decode(_)
Utf8Decode(bytes) ==
  IF bytes = <<>> THEN <<>>
  ELSE LET b == Head(bytes)
       IN IF b < 128 THEN <<b>> \o Utf8Decode(Tail(bytes))
          ELSE IF /\ b \in 194..223
                  /\ Len(bytes) >= 2
                  /\ bytes[2] \in 128..191
            THEN <<(b - 192) * 64 + (bytes[2] - 128)>>
                 \o Utf8Decode(Tail(Tail(bytes)))
          ELSE <<65533>> \o Utf8Decode(Tail(bytes))

\* the bytes of the response body: the deltas, then the sources chunk
ResponseBytes(text, list) == Utf8Encode(text) \o Utf8Encode(SourcesChunk(list))

\* the ways the transport hands a byte sequence to read(), in at most k + 1
\* non-empty pieces
RECURSIVE Divide(_, _)
Divide(bytes, k) ==
  {<<bytes>>} \cup
  (IF k = 0 THEN {}
   ELSE UNION {{<<SubSeq(bytes, 1, i)>> \o d :
                  d \in Divide(SubSeq(bytes, i + 1, Len(bytes)), k - 1)} :
               i \in 1..(Len(bytes) - 1)})

\* text.indexOf(sep), 1-based, 0 when sep does not occur
IsAt(text, sep, i) ==
  /\ i + Len(sep) - 1 <= Len(text)
  /\ SubSeq(text, i, i + Len(sep) - 1) = sep
Includes(text, sep) == \E i \in 1..Len(text) : IsAt(text, sep, i)
IndexOf(text, sep) ==
  IF Includes(text, sep)
    THEN CHOOSE i \in 1..Len(text) :
           IsAt(text, sep, i) /\ \A j \in 1..(i - 1) : ~IsAt(text, sep, j)
    ELSE 0

\* the first two elements of text.split(sep) when sep occurs in text
SplitParts(text, sep) ==
  LET i == IndexOf(text, sep)
      rest == SubSeq(text, i + Len(sep), Len(text))
      j == IndexOf(rest, sep)
  IN <<SubSeq(text, 1, i - 1),
       IF j = 0 THEN rest ELSE SubSeq(rest, 1, j - 1)>>

\* what JSON.parse gives for a serialised source list
ParsedList(list) == [i \in DOMAIN list |-> JsonSource(list[i])]

\* JSON.parse(text): the array when text is the serialisation of one, a
\* SyntaxError otherwise
JsonParseSources(text) ==
  IF \E l \in StreamSourceLists : JsonStringify(l) = text
    THEN [ok |-> TRUE,
          value |-> ParsedList(CHOOSE l \in StreamSourceLists :
                                 JsonStringify(l) = text)]
    ELSE [ok |-> FALSE, value |-> <<>>]

\* everything handleSubmit leaves alone
clientRest == <<chatVars, modeVars, chunkVars, rechunkVars, searchVars, lastVars>>

InitClient ==
  /\ ChatIdle
  /\ LastIdle
  /\ SearchIdle
  /\ RechunkIdle
  /\ ModeIdle
  /\ ChunkIdle
  /\ cpc = "reading"
  /\ cText \in ClientTexts
  /\ cList \in StreamSourceLists
  /\ pending \in Divide(ResponseBytes(cText, cList), MaxCuts)
  /\ assistantMessage = <<>>
  /\ isReadingSources = FALSE
  /\ sourcesBuffer = <<>>
  /\ clientSources = <<>>

\* one turn of the while loop: read() delivers the next chunk
ReadChunk ==
  /\ cpc = "reading"
  /\ pending /= <<>>
  /\ LET chunk == Utf8Decode(Head(pending))
     IN IF Includes(chunk, Marker)
          THEN LET parts == SplitParts(chunk, Marker)
               IN /\ isReadingSources' = TRUE
                  /\ assistantMessage' = assistantMessage \o parts[1]
                  /\ sourcesBuffer' = parts[2]
          ELSE IF isReadingSources
            THEN /\ sourcesBuffer' = sourcesBuffer \o chunk
                 /\ UNCHANGED <<isReadingSources, assistantMessage>>
            ELSE /\ assistantMessage' = assistantMessage \o chunk
                 /\ UNCHANGED <<isReadingSources, sourcesBuffer>>
  /\ pending' = Tail(pending)
  /\ UNCHANGED <<cpc, cText, cList, clientSources, clientRest>>

\* read() reports done: leave the loop and parse the sources buffer
ReadDone ==
  /\ cpc = "reading"
  /\ pending = <<>>
  /\ cpc' = "done"
  /\ LET parsed == JsonParseSources(sourcesBuffer)
     IN clientSources' = IF sourcesBuffer /= <<>> /\ parsed.ok
                           THEN parsed.value ELSE clientSources
  /\ UNCHANGED <<cText, cList, pending, assistantMessage, isReadingSources,
                 sourcesBuffer, clientRest>>

\* read() rejects (the stream is errored): the catch block shows the error
\* message
ReadThrows ==
  /\ cpc = "reading"
  /\ cpc' = "failed"
  /\ UNCHANGED <<cText, cList, pending, assistantMessage, isReadingSources,
                 sourcesBuffer, clientSources, clientRest>>

NextClient == ReadChunk \/ ReadDone \/ ReadThrows

SpecClient == InitClient /\ [][NextClient]_vars

\* C11: when handleSubmit has read the whole response, however the bytes
\* were divided into read() chunks, the assistant message is exactly the
\* generated text before the marker and the sources are the JSON array
\* after it.
ClientSplitsOnMarker ==
  cpc = "done" =>
    /\ assistantMessage = cText
    /\ clientSources = ParsedList(cList)

\* --------------------------------------------------------------------------
\* POST: episode-scoped or global chat (route.ts, lines 367-523)
\* --------------------------------------------------------------------------
MaxModeChunks == 2

ModeEpisodes == {"e1", "e2"}

\* what a request carries as episodeId: nothing, "", or an id
EpisodeIdValues == {JUndef, JStr("")} \cup {JStr(id) : id \in ModeEpisodes}

\* the episodes table: under each id no row, a row without summary, or a
\* row with one
ModeStores == [ModeEpisodes -> {"missing", "plain", "summarised"}]

EpisodeRow(id, kind) ==
  [id |-> id, title |-> "title-" \o id, slug |-> "slug-" \o id,
   guest_name |-> "guest-" \o id,
   summary |-> IF kind = "summarised" THEN JStr("summary-" \o id) ELSE JNull,
   raw_transcript |-> "transcript-" \o id]

\* getFullEpisode: the row, or null when .single() found none
GetFullEpisode(store, id) ==
  IF store[id] = "missing"
    THEN [isNull |-> TRUE, row |-> EpisodeRow(id, "plain")]
    ELSE [isNull |-> FALSE, row |-> EpisodeRow(id, store[id])]

\* if (episodeId)
EpisodeScopedNever(episodeId) == FALSE
EpisodeScoped(episodeId) == Truthy(episodeId)

\* lines 388-392, the template string as its parts
EpisodeContext(row) ==
  <<"Episode: ", row.title, "\nGuest: ", row.guest_name, "\n">>
  \o (IF Truthy(row.summary)
        THEN <<"Summary: ", row.summary.v[1], "\n">> ELSE <<>>)
  \o <<"\nFull Transcript:\n", row.raw_transcript>>

\* lines 394-399
EpisodeSources(row) ==
  <<[episodeId |-> row.id, episodeTitle |-> row.title,
     episodeSlug |-> row.slug,
     snippet |-> JsOr(row.summary, JStr(row.title)).v[1]]>>

\* chunk lists multiQuerySearch returns
ModeChunkLists ==
  SeqsUpTo([episode_id : ModeEpisodes, start_timestamp : {NoTimestamp}],
           MaxModeChunks)

\* lines 417-422: one header per chunk, "Unknown" without episode details
RECURSIVE GlobalContext(_, _)
GlobalContext(chunks, eps) ==
  IF chunks = <<>> THEN <<>>
  ELSE LET c == Head(chunks)
       IN <<"[", IF c.episode_id \in eps THEN "guest-" \o c.episode_id
                   ELSE "Unknown", "]:\n">>
          \o (IF Tail(chunks) = <<>> THEN <<>> ELSE <<"\n\n---\n\n">>)
          \o GlobalContext(Tail(chunks), eps)

\* everything the mode choice leaves alone
modeRest == <<chatVars, clientVars, chunkVars, rechunkVars, searchVars, lastVars>>

InitMode ==
  /\ ChatIdle
  /\ LastIdle
  /\ SearchIdle
  /\ RechunkIdle
  /\ ClientIdle
  /\ ChunkIdle
  /\ mpc = "received"
  /\ mEpisodeId \in EpisodeIdValues
  /\ mStore \in ModeStores
  /\ mQueries = <<>>
  /\ context = <<>>
  /\ modeSources = <<>>
  /\ systemPrompt = <<>>
  /\ invoked = {}

\* lines 383-400: the episode branch
EpisodeBranch ==
  /\ mpc = "received"
  /\ EpisodeScoped(mEpisodeId)
  /\ invoked' = invoked \cup {"getFullEpisode"}
  /\ LET episode == GetFullEpisode(mStore, mEpisodeId.v[1])
     IN IF ~episode.isNull
          THEN /\ context' = EpisodeContext(episode.row)
               /\ modeSources' = EpisodeSources(episode.row)
          ELSE UNCHANGED <<context, modeSources>>
  /\ mpc' = "context"
  /\ UNCHANGED <<mEpisodeId, mStore, mQueries, systemPrompt, modeRest>>

\* lines 401-405: the global branch asks planSearch for the queries
PlanGlobal ==
  /\ mpc = "received"
  /\ ~EpisodeScoped(mEpisodeId)
  /\ invoked' = invoked \cup {"planSearch"}
  /\ mQueries' \in {<<>>, <<"q1">>, <<"q1", "q2">>}
  /\ mpc' = "planned"
  /\ UNCHANGED <<mEpisodeId, mStore, context, modeSources, systemPrompt,
                 modeRest>>

\* lines 408-469: multiQuerySearch (one getEmbedding per query), then the
\* context and the source list of the fused chunks
SearchGlobal ==
  /\ mpc = "planned"
  /\ invoked' = invoked \cup {"multiQuerySearch"}
                  \cup (IF mQueries = <<>> THEN {} ELSE {"getEmbedding"})
  /\ \E chunks \in (IF mQueries = <<>> THEN {<<>>} ELSE ModeChunkLists) :
       \E eps \in {EpisodesOf(chunks), {}} :
         /\ context' = GlobalContext(chunks, eps)
         /\ modeSources' = BuildSources(chunks, eps)
  /\ mpc' = "context"
  /\ UNCHANGED <<mEpisodeId, mStore, mQueries, systemPrompt, modeRest>>

\* multiQuerySearch throws: the catch block answers 500
SearchThrows ==
  /\ mpc = "planned"
  /\ invoked' = invoked \cup {"multiQuerySearch"}
  /\ mpc' = "error500"
  /\ UNCHANGED <<mEpisodeId, mStore, mQueries, context, modeSources,
                 systemPrompt, modeRest>>

\* lines 482-513: the system prompt of the mode, around the context
BuildPrompt ==
  /\ mpc = "context"
  /\ systemPrompt' =
       <<IF EpisodeScoped(mEpisodeId) THEN "episode" ELSE "global">> \o context
  /\ mpc' = "prompted"
  /\ UNCHANGED <<mEpisodeId, mStore, mQueries, context, modeSources, invoked,
                 modeRest>>

NextMode ==
  EpisodeBranch \/ PlanGlobal \/ SearchGlobal \/ SearchThrows \/ BuildPrompt

SpecMode == InitMode /\ [][NextMode]_vars

\* the request names an episode (a non-empty episodeId)
EpisodeRequest == Truthy(mEpisodeId)
RetrievalFunctions == {"planSearch", "multiQuerySearch", "getEmbedding"}
ContextBuilt == mpc \in {"context", "prompted"}

\* the two branches never meet in one request
ModeExclusive ==
  /\ EpisodeRequest => invoked \cap RetrievalFunctions = {}
  /\ ~EpisodeRequest => "getFullEpisode" \notin invoked
  /\ mpc = "prompted" =>
       systemPrompt[1] = (IF EpisodeRequest THEN "episode" ELSE "global")

\* the context ends with the transcript of the episode and the source list
\* is one citation of it
TranscriptAndOneCitation ==
  /\ context /= <<>>
  /\ context[Len(context)] = "transcript-" \o mEpisodeId.v[1]
  /\ Len(modeSources) = 1
  /\ modeSources[1].episodeId = mEpisodeId.v[1]
  /\ modeSources[1].snippet \in
       {"summary-" \o mEpisodeId.v[1], "title-" \o mEpisodeId.v[1]}

TARGET_CHUNK_SIZE == 12
OVERLAP == 3
BATCH_SIZE == 2
MaxParagraphs == 3

\* a nullable string
NullText == [isNull |-> TRUE, text |-> <<>>]
Text(t) == [isNull |-> FALSE, text |-> t]

IsNewline(c) == c = 10
IsSpace(c) == c \in {9, 10, 11, 12, 13, 32}
IsDigit(c) == c \in 48..57
IsLetter(c) == c \in 65..90 \/ c \in 97..122

\* content.split(/\n\n+/)
RECURSIVE SkipNewlines(_)
SkipNewlines(text) ==
  IF text /= <<>> /\ IsNewline(Head(text)) THEN SkipNewlines(Tail(text))
  ELSE text
RECURSIVE SplitParagraphs(_)
SplitParagraphs(text) ==
  LET breaks == {i \in 1..(Len(text) - 1) :
                   IsNewline(text[i]) /\ IsNewline(text[i + 1])}
  IN IF breaks = {} THEN <<text>>
     ELSE LET i == CHOOSE b \in breaks : \A c \in breaks : b <= c
          IN <<SubSeq(text, 1, i - 1)>>
             \o SplitParagraphs(SkipNewlines(SubSeq(text, i, Len(text))))

\* text.trim()
RECURSIVE TrimStart(_)
TrimStart(text) ==
  IF text /= <<>> /\ IsSpace(Head(text)) THEN TrimStart(Tail(text)) ELSE text
RECURSIVE TrimEnd(_)
TrimEnd(text) ==
  IF text /= <<>> /\ IsSpace(text[Len(text)])
    THEN TrimEnd(SubSeq(text, 1, Len(text) - 1)) ELSE text
Trim(text) == TrimEnd(TrimStart(text))

\* text.slice(-n)
SliceLast(text, n) ==
  IF Len(text) <= n THEN text ELSE SubSeq(text, Len(text) - n + 1, Len(text))

ParagraphSeparator == Str(<<"LF", "LF">>)

\* Math.ceil(length / 4)
TokenCount(text) == (Len(text) + 3) \div 4

\* the code unit at position k, 0 outside the text
At(text, k) == IF k \in 1..Len(text) THEN text[k] ELSE 0

\* the longest run of [A-Za-z\s] that starts at position p
RECURSIVE NameRun(_, _)
NameRun(text, p) ==
  IF IsLetter(At(text, p)) \/ IsSpace(At(text, p))
    THEN 1 + NameRun(text, p + 1) ELSE 0

\* One way to match
\*   /[\[\(]?(\d{1,2}:\d{2}(?::\d{2})?)[\]\)]?\s*([A-Za-z\s]+)?:/
\* from position i: open and close say whether a bracket is consumed, nd is
\* the number of hour digits, sec whether :SS is consumed.  The name run up
\* to the final colon is then determined.
AttemptEnd(a) == a.i + a.open + a.nd + 3 + (3 * a.sec) + a.close
AttemptMatches(text, a) ==
  LET p1 == a.i + a.open
      p2 == p1 + a.nd + 3
      p3 == p2 + 3 * a.sec
      p4 == AttemptEnd(a)
  IN /\ a.open = 1 => At(text, a.i) \in {Code("["), Code("(")}
     /\ \A k \in p1..(p1 + a.nd - 1) : IsDigit(At(text, k))
     /\ At(text, p1 + a.nd) = Code(":")
     /\ IsDigit(At(text, p1 + a.nd + 1))
     /\ IsDigit(At(text, p1 + a.nd + 2))
     /\ a.sec = 1 =>
          /\ At(text, p2) = Code(":")
          /\ IsDigit(At(text, p2 + 1))
          /\ IsDigit(At(text, p2 + 2))
     /\ a.close = 1 => At(text, p3) \in {Code("]"), Code(")")}
     /\ At(text, p4 + NameRun(text, p4)) = Code(":")

Attempts(text) ==
  LET starts == {k \in 1..Len(text) :
                   IsDigit(text[k]) \/ text[k] \in {Code("["), Code("(")}}
  IN {a \in [i : starts, open : {0, 1}, nd : {1, 2}, sec : {0, 1},
             close : {0, 1}] : AttemptMatches(text, a)}

\* the order in which the regex engine tries them: leftmost start first,
\* then every greedy choice before its alternative
AttemptRank(a) ==
  (16 * a.i) + (8 * (1 - a.open)) + (4 * (2 - a.nd)) + (2 * (1 - a.sec))
  + (1 - a.close)

NoMatch == [found |-> FALSE, timestamp |-> <<>>, speaker |-> NullText]

\* paragraph.match(...): group 1, and group 2 (undefined when the name run
\* holds nothing but white space, which \s* consumes)
TimestampMatch(paragraph) ==
  LET found == Attempts(paragraph)
  IN IF found = {} THEN NoMatch
  ELSE LET a == CHOOSE x \in found :
                  \A y \in found : AttemptRank(x) <= AttemptRank(y)
           p1 == a.i + a.open
           p4 == AttemptEnd(a)
           name == TrimStart(SubSeq(paragraph, p4, p4 + NameRun(paragraph, p4) - 1))
       IN [found |-> TRUE,
           timestamp |-> SubSeq(paragraph, p1, p4 - a.close - 1),
           speaker |-> IF name = <<>> THEN NullText ELSE Text(name)]

\* lines 235-240: a match replaces the current timestamp; it replaces the
\* current speaker when group 2 took part in it
TagsForgetful(tags, m) ==
  [timestamp |-> IF m.found THEN Text(m.timestamp) ELSE NullText,
   speaker |-> IF m.found /\ ~m.speaker.isNull
                 THEN Text(Trim(m.speaker.text)) ELSE NullText]
UpdateTags(tags, m) ==
  [timestamp |-> IF m.found THEN Text(m.timestamp) ELSE tags.timestamp,
   speaker |-> IF m.found /\ ~m.speaker.isNull
                 THEN Text(Trim(m.speaker.text)) ELSE tags.speaker]

\* line 242
ExceedsNever(buffer, paragraph) == FALSE
Exceeds(buffer, paragraph) == Len(buffer) + Len(paragraph) > TARGET_CHUNK_SIZE

\* lines 255-256: the next buffer after a flush
SeedUnseparated(buffer, paragraph) == SliceLast(buffer, OVERLAP) \o paragraph
Seed(buffer, paragraph) ==
  SliceLast(buffer, OVERLAP) \o ParagraphSeparator \o paragraph

\* line 258
Appended(buffer, paragraph) ==
  buffer \o (IF buffer /= <<>> THEN ParagraphSeparator ELSE <<>>) \o paragraph

\* lines 245-250 and 264-269: the chunk pushed for a buffer
NewChunk(st) ==
  [content |-> Trim(st.currentChunk), chunkIndex |-> st.chunkIndex,
   startTimestamp |-> st.currentTimestamp, speaker |-> st.currentSpeaker]

\* lines 223-226
LoopStart ==
  [currentChunk |-> <<>>, chunkIndex |-> 0, currentTimestamp |-> NullText,
   currentSpeaker |-> NullText, chunks |-> <<>>]

\* lines 228-260: one turn of the loop over the paragraphs
LoopStep(st, paragraph) ==
  LET tags == UpdateTags([timestamp |-> st.currentTimestamp,
                          speaker |-> st.currentSpeaker],
                         TimestampMatch(paragraph))
      tagged == [st EXCEPT !.currentTimestamp = tags.timestamp,
                           !.currentSpeaker = tags.speaker]
      emit == Trim(st.currentChunk) /= <<>>
  IN IF Exceeds(st.currentChunk, paragraph)
       THEN [tagged EXCEPT
               !.chunks = IF emit THEN Append(@, NewChunk(tagged)) ELSE @,
               !.chunkIndex = IF emit THEN @ + 1 ELSE @,
               !.currentChunk = Seed(st.currentChunk, paragraph)]
       ELSE [tagged EXCEPT !.currentChunk = Appended(@, paragraph)]

\* lines 263-270: the last buffer
LoopEndNoPush(st) == st.chunks
LoopEnd(st) ==
  IF Trim(st.currentChunk) /= <<>> THEN Append(st.chunks, NewChunk(st))
  ELSE st.chunks

RECURSIVE LoopFrom(_, _)
LoopFrom(st, paragraphs) ==
  IF paragraphs = <<>> THEN st
  ELSE LoopFrom(LoopStep(st, Head(paragraphs)), Tail(paragraphs))

\* lines 215-270: the chunks of a transcript
ChunksOf(content) == LoopEnd(LoopFrom(LoopStart, SplitParagraphs(content)))

\* text repeated n times
RECURSIVE Repeat(_, _)
Repeat(text, n) == IF n <= 0 THEN <<>> ELSE text \o Repeat(text, n - 1)

\* paragraphs transcripts are made of: empty, plain, with white space at
\* both ends, with a timestamp, with a timestamp and a speaker, as long as
\* the target size, and longer
ParagraphLibrary ==
  {<<>>,
   Str(<<"a", "a", "a", "a">>),
   Str(<<" ", "a", "LF", "a", " ">>),
   Str(<<"2", ":", "3", "0", ":", "a", "a", "a">>),
   Str(<<"1", ":", "0", "0", " ", "b", ":", "a">>),
   Repeat(Str(<<"e">>), TARGET_CHUNK_SIZE),
   Repeat(Str(<<"t">>), TARGET_CHUNK_SIZE + 1)}

\* paragraph breaks: two newlines, or more
Breaks == {Str(<<"LF", "LF">>), Str(<<"LF", "LF", "LF">>)}

RECURSIVE Join(_, _)
Join(texts, sep) ==
  IF texts = <<>> THEN <<>>
  ELSE IF Len(texts) = 1 THEN texts[1]
  ELSE Head(texts) \o sep \o Join(Tail(texts), sep)

Transcripts ==
  {Join(ps, sep) : ps \in SeqsUpTo(ParagraphLibrary, MaxParagraphs),
                   sep \in Breaks}

\* everything the chunking loop leaves alone
chunkRest == <<chatVars, clientVars, modeVars, rechunkVars, searchVars, lastVars>>

\* the loop's variables as one record
LoopState ==
  [currentChunk |-> currentChunk, chunkIndex |-> chunkIndex,
   currentTimestamp |-> currentTimestamp, currentSpeaker |-> currentSpeaker,
   chunks |-> kChunks]

\* lines 215-226
InitChunk ==
  /\ ChatIdle
  /\ LastIdle
  /\ SearchIdle
  /\ RechunkIdle
  /\ ClientIdle
  /\ ModeIdle
  /\ kpc = "loop"
  /\ transcript \in Transcripts
  /\ kParagraphs = SplitParagraphs(transcript)
  /\ kpi = 1
  /\ currentChunk = LoopStart.currentChunk
  /\ chunkIndex = LoopStart.chunkIndex
  /\ currentTimestamp = LoopStart.currentTimestamp
  /\ currentSpeaker = LoopStart.currentSpeaker
  /\ kChunks = LoopStart.chunks
  /\ holds = <<>>
  /\ chunkHolds = <<>>
  /\ emittedAt = <<>>

\* one turn of for (const paragraph of paragraphs)
ProcessParagraph ==
  /\ kpc = "loop"
  /\ kpi <= Len(kParagraphs)
  /\ \E st \in {LoopStep(LoopState, kParagraphs[kpi])} :
     LET pushed == Len(st.chunks) > Len(kChunks)
     IN /\ currentChunk' = st.currentChunk
        /\ chunkIndex' = st.chunkIndex
        /\ currentTimestamp' = st.currentTimestamp
        /\ currentSpeaker' = st.currentSpeaker
        /\ kChunks' = st.chunks
        /\ holds' = IF Exceeds(currentChunk, kParagraphs[kpi])
                      THEN <<kpi>> ELSE Append(holds, kpi)
        /\ chunkHolds' = IF pushed THEN Append(chunkHolds, holds) ELSE chunkHolds
        /\ emittedAt' = IF pushed THEN Append(emittedAt, kpi) ELSE emittedAt
  /\ kpi' = kpi + 1
  /\ UNCHANGED <<kpc, transcript, kParagraphs, chunkRest>>

\* the loop is over: push the last buffer
PushLast ==
  /\ kpc = "loop"
  /\ kpi > Len(kParagraphs)
  /\ kChunks' = LoopEnd(LoopState)
  /\ chunkHolds' = IF Len(kChunks') > Len(kChunks)
                     THEN Append(chunkHolds, holds) ELSE chunkHolds
  /\ emittedAt' = IF Len(kChunks') > Len(kChunks)
                    THEN Append(emittedAt, kpi) ELSE emittedAt
  /\ kpc' = "chunked"
  /\ UNCHANGED <<transcript, kParagraphs, kpi, currentChunk, chunkIndex,
                 currentTimestamp, currentSpeaker, holds, chunkRest>>

NextChunk == ProcessParagraph \/ PushLast

SpecChunk == InitChunk /\ [][NextChunk]_vars

RECURSIVE SumOfLengths(_)
SumOfLengths(list) ==
  IF list = <<>> THEN 0 ELSE Len(Head(list).content) + SumOfLengths(Tail(list))

\* the number of characters of a text that are not white space
NonSpaceCount(text) == Cardinality({i \in 1..Len(text) : ~IsSpace(text[i])})

\* every paragraph break is exactly two newlines and no paragraph begins or
\* ends with white space
PlainlyBroken(text, pars) ==
  /\ \A i \in 1..(Len(text) - 2) :
       ~(IsNewline(text[i]) /\ IsNewline(text[i + 1]) /\ IsNewline(text[i + 2]))
  /\ \A i \in 1..Len(pars) :
       pars[i] /= <<>> /\ Trim(pars[i]) = pars[i]

\* C13 as stated: the chunk contents are together at least as long as the
\* transcript.
ChunkCoverage ==
  kpc = "chunked" => SumOfLengths(kChunks) >= Len(transcript)

\* C13: every paragraph, without the white space at its ends, is part of the
\* content of some chunk, so the chunk contents are together at least as
\* long as the transcript without its white space; they are at least as
\* long as the whole transcript when every break is exactly two newlines
\* and no paragraph begins or ends with white space.
ChunkCoverageOfText ==
  kpc = "chunked" =>
    /\ \A i \in 1..Len(kParagraphs) :
         Trim(kParagraphs[i]) /= <<>> =>
           \E c \in 1..Len(kChunks) :
             Includes(kChunks[c].content, Trim(kParagraphs[i]))
    /\ SumOfLengths(kChunks) >= NonSpaceCount(transcript)
    /\ PlainlyBroken(transcript, kParagraphs) =>
         SumOfLengths(kChunks) >= Len(transcript)

\* a transcript of three paragraphs, with a break of three newlines and
\* white space at the ends of a paragraph, chunked into two chunks that are
\* together shorter than the transcript
ChunkCoverageWitness ==
  /\ kpc = "chunked"
  /\ Len(kParagraphs) = 3
  /\ Len(kChunks) = 2
  /\ ~PlainlyBroken(transcript, kParagraphs)
  /\ \E i \in 1..3 : kParagraphs[i] /= <<>> /\ Trim(kParagraphs[i]) /= kParagraphs[i]
  /\ SumOfLengths(kChunks) < Len(transcript)

\* chunk c was pushed for a buffer holding one paragraph, longer than the
\* target size
HoldsOneOversized(c) ==
  /\ Len(chunkHolds[c]) = 1
  /\ Len(kParagraphs[chunkHolds[c][1]]) > TARGET_CHUNK_SIZE

\* C14 as stated: every chunk, except one holding a single paragraph longer
\* than the target size, is at most target size + overlap long.
ChunkSizeBound ==
  \A c \in 1..Len(kChunks) :
    ~HoldsOneOversized(c) =>
      Len(kChunks[c].content) <= TARGET_CHUNK_SIZE + OVERLAP

\* C14: every chunk, except one holding a single paragraph longer than the
\* target size, is at most target size + overlap + 2 long, the 2 being the
\* separator between the overlap and the paragraph; the excepted chunk is
\* at most overlap + 2 + the length of its paragraph long.
ChunkSizeBoundWithSeparator ==
  \A c \in 1..Len(kChunks) :
    IF HoldsOneOversized(c)
      THEN Len(kChunks[c].content) <=
             OVERLAP + Len(ParagraphSeparator) + Len(kParagraphs[chunkHolds[c][1]])
      ELSE Len(kChunks[c].content) <=
             TARGET_CHUNK_SIZE + OVERLAP + Len(ParagraphSeparator)

\* a second chunk of overlap, separator and one paragraph as long as the
\* target size
ChunkSizeBoundWitness ==
  /\ kpc = "chunked"
  /\ Len(kChunks) >= 2
  /\ ~HoldsOneOversized(2)
  /\ Len(kChunks[2].content) = TARGET_CHUNK_SIZE + OVERLAP + 2

\* the last n characters of a text, the whole text when it is shorter
LastChars(text, n) ==
  LET k == IF Len(text) < n THEN Len(text) ELSE n
  IN [i \in 1..k |-> text[Len(text) - k + i]]

\* this step is a turn of the loop in which the paragraph does not fit
FlushStep ==
  /\ kpc = "loop"
  /\ kpi <= Len(kParagraphs)
  /\ kpi' = kpi + 1
  /\ Len(currentChunk) + Len(kParagraphs[kpi]) > TARGET_CHUNK_SIZE

\* C15 as stated: on a flush the buffer becomes a chunk and the next buffer
\* is the last OVERLAP characters of the flushed buffer followed by the
\* paragraph, OVERLAP + len(paragraph) long.
OverlapSeeding ==
  [][FlushStep =>
       /\ Len(kChunks') = Len(kChunks) + 1
       /\ currentChunk' = LastChars(currentChunk, OVERLAP) \o kParagraphs[kpi]
       /\ Len(currentChunk') = OVERLAP + Len(kParagraphs[kpi])]_vars

\* C15: on a flush the buffer, unless it is empty or white space, becomes a
\* chunk (trimmed), and the next buffer is the last OVERLAP characters of
\* the flushed buffer (all of it when it is shorter), the separator of two
\* newlines, and the paragraph.
OverlapSeedingWithSeparator ==
  [][FlushStep =>
       /\ IF Trim(currentChunk) /= <<>>
            THEN /\ Len(kChunks') = Len(kChunks) + 1
                 /\ kChunks'[Len(kChunks')].content = Trim(currentChunk)
            ELSE kChunks' = kChunks
       /\ currentChunk' =
            LastChars(currentChunk, OVERLAP) \o <<10, 10>> \o kParagraphs[kpi]
       /\ Len(currentChunk') =
            (IF Len(currentChunk) < OVERLAP THEN Len(currentChunk) ELSE OVERLAP)
            + 2 + Len(kParagraphs[kpi])]_vars

\* two paragraphs of 8 characters that do not fit one buffer: the first is
\* chunk 1, and chunk 2 is overlap, separator and the second paragraph
OverlapSeedingWitness ==
  /\ kpc = "chunked"
  /\ Len(kParagraphs) = 2
  /\ Len(kParagraphs[1]) = 8
  /\ Len(kParagraphs[2]) = 8
  /\ Len(kChunks) = 2
  /\ kChunks[1].content = kParagraphs[1]
  /\ kChunks[2].content =
       LastChars(kParagraphs[1], OVERLAP) \o <<10, 10>> \o kParagraphs[2]
  /\ Len(kChunks[2].content) = OVERLAP + 2 + 8

\* the paragraphs among the first k in which a timestamp (a speaker) was
\* detected
WithTimestamp(k) ==
  {j \in 1..k : j <= Len(kParagraphs) /\ TimestampMatch(kParagraphs[j]).found}
WithSpeaker(k) ==
  {j \in WithTimestamp(k) : ~TimestampMatch(kParagraphs[j]).speaker.isNull}
LatestOf(S) == CHOOSE j \in S : \A i \in S : i <= j

\* the timestamp (speaker) detected most recently when the loop is at
\* paragraph k, null when none has been
LastTimestamp(k) ==
  IF WithTimestamp(k) = {} THEN NullText
  ELSE Text(TimestampMatch(kParagraphs[LatestOf(WithTimestamp(k))]).timestamp)
LastSpeaker(k) ==
  IF WithSpeaker(k) = {} THEN NullText
  ELSE Text(TimestampMatch(kParagraphs[LatestOf(WithSpeaker(k))]).speaker.text)

\* C16: every chunk carries the timestamp and the speaker detected most
\* recently when it is pushed, whether or not its own text holds a marker,
\* and null when none has been detected by then.
StickyTagging ==
  \A c \in 1..Len(kChunks) :
    /\ kChunks[c].startTimestamp = LastTimestamp(emittedAt[c])
    /\ kChunks[c].speaker = LastSpeaker(emittedAt[c])

\* three chunks of three paragraphs: only the first paragraph holds a
\* marker, and the last chunk, without a marker in its text, carries the
\* timestamp and the speaker detected there
StickyTaggingWitness ==
  /\ kpc = "chunked"
  /\ Len(kChunks) = 3
  /\ WithTimestamp(3) = {1}
  /\ WithSpeaker(3) = {1}
  /\ ~TimestampMatch(kChunks[3].content).found
  /\ kChunks[3].startTimestamp = Text(Str(<<"1", ":", "0", "0">>))
  /\ kChunks[3].speaker = Text(Str(<<"b">>))

\* --------------------------------------------------------------------------
\* chunkTranscript against the chunks table (part_003, lines 208, 272-292)
\* --------------------------------------------------------------------------
RechunkedEpisode == "e1"
OtherEpisode == "e2"

\* lines 275-282: the row inserted for a chunk
ChunkRow(episodeId, chunk) ==
  [episode_id |-> episodeId, content |-> chunk.content,
   chunk_index |-> chunk.chunkIndex, start_timestamp |-> chunk.startTimestamp,
   speaker |-> chunk.speaker, token_count |-> TokenCount(chunk.content)]
RowsFor(episodeId, list) == [i \in DOMAIN list |-> ChunkRow(episodeId, list[i])]

\* the rows of an episode
EpisodeRows(rows, episodeId) ==
  LET Keep(r) == r.episode_id = episodeId IN SelectSeq(rows, Keep)

\* line 208: from("chunks").delete().eq("episode_id", episodeId)
DeleteNothing(rows, episodeId) == rows
DeleteRows(rows, episodeId) ==
  LET Keep(r) == r.episode_id /= episodeId IN SelectSeq(rows, Keep)

\* line 275: chunks.slice(i, i + BATCH_SIZE)
Batch(list, i) ==
  SubSeq(list, i + 1, IF i + BATCH_SIZE < Len(list) THEN i + BATCH_SIZE ELSE Len(list))

\* transcripts to re-chunk: up to MaxParagraphs paragraphs that each fill a
\* chunk
RechunkTranscripts ==
  {Join(ps, ParagraphSeparator) :
     ps \in SeqsUpTo({Str(<<"1", ":", "0", "0", " ", "b", ":", "a">>),
                      Repeat(Str(<<"e">>), TARGET_CHUNK_SIZE),
                      Repeat(Str(<<"t">>), TARGET_CHUNK_SIZE + 1)},
                     MaxParagraphs)}

\* the table before the first run: a row of another episode, and either no
\* row of the episode or the rows of an earlier transcript
InitialStores ==
  {RowsFor(OtherEpisode, ChunksOf(Str(<<"a", "a">>))) \o old :
     old \in {<<>>, RowsFor(RechunkedEpisode,
                            ChunksOf(Str(<<"9", ":", "0", "0", ":", "a">>)))}}

\* everything chunkTranscript leaves alone
rechunkRest == <<chatVars, clientVars, modeVars, chunkVars, searchVars, lastVars>>

InitRechunk ==
  /\ ChatIdle
  /\ LastIdle
  /\ SearchIdle
  /\ ClientIdle
  /\ ModeIdle
  /\ ChunkIdle
  /\ rpc = "delete"
  /\ rTranscript \in RechunkTranscripts
  /\ rChunks = <<>>
  /\ rBatch = 0
  /\ chunksTable \in InitialStores
  /\ rRun = 1
  /\ rErrors = {}
  /\ afterFirst = <<>>

\* line 208, the delete took effect; then the loop runs (lines 212-270)
DeleteChunks ==
  /\ rpc = "delete"
  /\ chunksTable' = DeleteRows(chunksTable, RechunkedEpisode)
  /\ rChunks' = ChunksOf(rTranscript)
  /\ rBatch' = 0
  /\ rpc' = "insert"
  /\ UNCHANGED <<rTranscript, rRun, rErrors, afterFirst, rechunkRest>>

\* line 208, the delete reported an error: the result is not looked at
DeleteChunksError ==
  /\ rpc = "delete"
  /\ rErrors' = rErrors \cup {"delete"}
  /\ rChunks' = ChunksOf(rTranscript)
  /\ rBatch' = 0
  /\ rpc' = "insert"
  /\ UNCHANGED <<rTranscript, chunksTable, rRun, afterFirst, rechunkRest>>

\* lines 274-289, one turn: the batch is inserted
InsertBatch ==
  /\ rpc = "insert"
  /\ rBatch < Len(rChunks)
  /\ chunksTable' = chunksTable \o RowsFor(RechunkedEpisode, Batch(rChunks, rBatch))
  /\ rBatch' = rBatch + BATCH_SIZE
  /\ UNCHANGED <<rpc, rTranscript, rChunks, rRun, rErrors, afterFirst,
                 rechunkRest>>

\* lines 274-289, one turn: the insert reported an error, which is logged
InsertBatchError ==
  /\ rpc = "insert"
  /\ rBatch < Len(rChunks)
  /\ rErrors' = rErrors \cup {"insert"}
  /\ rBatch' = rBatch + BATCH_SIZE
  /\ UNCHANGED <<rpc, rTranscript, rChunks, chunksTable, rRun, afterFirst,
                 rechunkRest>>

\* line 291: the insert loop is over and chunkTranscript returns
ReturnFromChunking ==
  /\ rpc = "insert"
  /\ rBatch >= Len(rChunks)
  /\ rpc' = "returned"
  /\ afterFirst' = IF rRun = 1 THEN EpisodeRows(chunksTable, RechunkedEpisode)
                   ELSE afterFirst
  /\ UNCHANGED <<rTranscript, rChunks, rBatch, chunksTable, rRun, rErrors,
                 rechunkRest>>

\* the script is run again for the same episode and transcript
RunAgain ==
  /\ rpc = "returned"
  /\ rRun = 1
  /\ rRun' = 2
  /\ rpc' = "delete"
  /\ rChunks' = <<>>
  /\ rBatch' = 0
  /\ UNCHANGED <<rTranscript, chunksTable, rErrors, afterFirst, rechunkRest>>

NextRechunk ==
  \/ DeleteChunks
  \/ DeleteChunksError
  \/ InsertBatch
  \/ InsertBatchError
  \/ ReturnFromChunking
  \/ RunAgain

SpecRechunk == InitRechunk /\ [][NextRechunk]_vars

\* the rows a transcript gives: content, chunk_index, start_timestamp,
\* speaker and token_count of each chunk, in order
GeneratedRows == RowsFor(RechunkedEpisode, ChunksOf(rTranscript))
StoredRows == EpisodeRows(chunksTable, RechunkedEpisode)

\* C17: when no store call has reported an error, the episode's rows after
\* a run are the rows its transcript gives, whatever the table held before,
\* and after the second run they are what they were after the first.
IdempotentRechunking ==
  rpc = "returned" /\ rErrors = {} =>
    /\ StoredRows = GeneratedRows
    /\ rRun = 2 => StoredRows = afterFirst

\* the second run has returned, no error was reported, and the table holds
\* the three rows of the transcript
IdempotentRechunkingWitness ==
  /\ rpc = "returned"
  /\ rRun = 2
  /\ rErrors = {}
  /\ Len(StoredRows) = 3
  /\ StoredRows[3].chunk_index = 2
  /\ StoredRows = afterFirst

\* C18: when chunkTranscript has returned, the episode's rows are exactly
\* the rows generated from its transcript.
RechunkReplacesAll ==
  rpc = "returned" => StoredRows = GeneratedRows

\* --------------------------------------------------------------------------
\* the search endpoint (src/src/app/api/search/route.ts, POST)
\* --------------------------------------------------------------------------
MaxSearchLimit == 2
MaxHits == 3
\* match_threshold 0.2 and the score 0.5 of a text match, in tenths
SearchThreshold == 2
TextScore == 5

SearchTypes == {"semantic", "text", "hybrid"}
SearchEpisodes == {1, 2, 3}
\* similarities above the threshold: below and above the text score
SearchSims == {3, 8}

\* match_chunks(embedding, 0.2, limit * 2): rows above the threshold,
\* nearest first, at most limit * 2 of them
SearchHits(n) ==
  {h \in SeqsUpTo([episode_id : SearchEpisodes, similarity : SearchSims], MaxHits) :
     /\ Len(h) <= n * 2
     /\ \A i \in 1..Len(h) : h[i].similarity > SearchThreshold
     /\ \A i \in 1..(Len(h) - 1) : h[i].similarity >= h[i + 1].similarity}

\* lines 98-105: the best similarity of each episode, in Map order
RECURSIVE EpisodeScores(_, _)
EpisodeScores(scores, hits) ==
  IF hits = <<>> THEN scores
  ELSE LET c == Head(hits)
           currentScore == IF MapHas(scores, c.episode_id)
                             THEN MapGet(scores, c.episode_id).score ELSE 0
           best == IF currentScore >= c.similarity THEN currentScore
                   ELSE c.similarity
       IN EpisodeScores(MapSet(scores, [id |-> c.episode_id, score |-> best]),
                        Tail(hits))

\* the orders in which the episodes table returns its rows
TableOrders == {<<1, 2, 3>>, <<3, 1, 2>>}

\* from("episodes").select(...).in("id", ids): the rows, in table order
EpisodesIn(order, ids) ==
  LET Wanted(id) == id \in ids IN SelectSeq(order, Wanted)

\* lines 96-120: results after the semantic step; episodes is null when the
\* episodes query failed
SemanticResults(hits, n, order, episodesNull) ==
  IF hits = <<>> \/ episodesNull THEN <<>>
  ELSE LET episodeScores == EpisodeScores(<<>>, hits)
           episodeIds == Slice([i \in 1..Len(episodeScores) |-> episodeScores[i].id], n)
           rows == EpisodesIn(order, Range(episodeIds))
       IN [i \in 1..Len(rows) |->
             [id |-> rows[i], score |-> MapGet(episodeScores, rows[i]).score]]

\* line 123
TextSearchRuns(type, list, n) ==
  type = "text" \/ (type = "hybrid" /\ Len(list) < n)

\* lines 126-130: the rows matching the pattern, in table order, at most n
TextResults(order, matching, n) == Slice(EpisodesIn(order, matching), n)

\* lines 134-139: push the text rows whose id results does not hold yet
RECURSIVE MergeTextUnchecked(_, _)
MergeTextUnchecked(list, rows) ==
  IF rows = <<>> THEN list
  ELSE MergeTextUnchecked(Append(list, [id |-> Head(rows), score |-> TextScore]),
                          Tail(rows))
MergeText(list, rows) ==
  LET existingIds == {list[i].id : i \in 1..Len(list)}
      Fresh(id) == id \notin existingIds
  IN MergeTextUnchecked(list, SelectSeq(rows, Fresh))

\* line 144: results.sort((a, b) => b.score - a.score), a stable sort
RECURSIVE InsertByScore(_, _)
InsertByScore(sorted, r) ==
  IF sorted = <<>> THEN <<r>>
  ELSE IF Head(sorted).score >= r.score
    THEN <<Head(sorted)>> \o InsertByScore(Tail(sorted), r)
  ELSE <<r>> \o sorted
RECURSIVE SortByScore(_)
SortByScore(list) ==
  IF list = <<>> THEN <<>>
  ELSE InsertByScore(SortByScore(SubSeq(list, 1, Len(list) - 1)), list[Len(list)])

\* lines 144-147: the results of the response
Respond(list, n) == Slice(SortByScore(list), n)

\* everything the search endpoint leaves alone
searchRest == <<chatVars, clientVars, modeVars, chunkVars, rechunkVars, lastVars>>

\* a validated request
InitSearch ==
  /\ ChatIdle
  /\ LastIdle
  /\ ClientIdle
  /\ ModeIdle
  /\ ChunkIdle
  /\ RechunkIdle
  /\ xpc = "received"
  /\ xType \in SearchTypes
  /\ xLimit \in 1..MaxSearchLimit
  /\ xResults = <<>>
  /\ xResponse = <<>>
  /\ xHits = <<>>
  /\ semanticResults = <<>>
  /\ textRows = [ran |-> FALSE, rows |-> <<>>]

\* lines 83-121: the semantic step
SemanticStep ==
  /\ xpc = "received"
  /\ xType \in {"semantic", "hybrid"}
  /\ \E hits \in SearchHits(xLimit), order \in TableOrders,
        episodesNull \in BOOLEAN :
       /\ xHits' = hits
       /\ xResults' = SemanticResults(hits, xLimit, order, episodesNull)
  /\ semanticResults' = xResults'
  /\ xpc' = "semantic"
  /\ UNCHANGED <<xType, xLimit, xResponse, textRows, searchRest>>

\* getEmbedding or a store call throws: the catch block answers 500
SearchThrows500 ==
  /\ xpc = "received"
  /\ xType \in {"semantic", "hybrid"}
  /\ xpc' = "error500"
  /\ UNCHANGED <<xType, xLimit, xResults, xResponse, xHits, semanticResults,
                 textRows, searchRest>>

\* the semantic step is over, or the type is text
AfterSemantic ==
  \/ xpc = "semantic"
  \/ xpc = "received" /\ xType = "text"

\* lines 123-150: the text search runs, its rows (none when data is null)
\* are merged, and the response is sent
TextStepAndRespond ==
  /\ AfterSemantic
  /\ TextSearchRuns(xType, xResults, xLimit)
  /\ \E order \in TableOrders, matching \in SUBSET SearchEpisodes :
       LET rows == TextResults(order, matching, xLimit)
       IN /\ textRows' = [ran |-> TRUE, rows |-> rows]
          /\ xResults' = SortByScore(MergeText(xResults, rows))
          /\ xResponse' = Respond(MergeText(xResults, rows), xLimit)
  /\ xpc' = "responded"
  /\ UNCHANGED <<xType, xLimit, xHits, semanticResults, searchRest>>

\* lines 143-150: the response without a text search
RespondWithoutText ==
  /\ AfterSemantic
  /\ ~TextSearchRuns(xType, xResults, xLimit)
  /\ xResults' = SortByScore(xResults)
  /\ xResponse' = Respond(xResults, xLimit)
  /\ xpc' = "responded"
  /\ UNCHANGED <<xType, xLimit, xHits, semanticResults, textRows, searchRest>>

NextSearch ==
  SemanticStep \/ SearchThrows500 \/ TextStepAndRespond \/ RespondWithoutText

SpecSearch == InitSearch /\ [][NextSearch]_vars

IdsOf(list) == {list[i].id : i \in 1..Len(list)}

\* the best similarity match_chunks reported for an episode
BestSimilarity(id) ==
  LET sims == {xHits[i].similarity : i \in {j \in 1..Len(xHits) : xHits[j].episode_id = id}}
  IN CHOOSE s \in sims : \A t \in sims : t <= s

HybridBackfill ==
  xType = "hybrid" =>
    /\ textRows.ran => Len(semanticResults) < xLimit
    /\ xpc = "responded" => IdsOf(semanticResults) \subseteq IdsOf(xResponse)

\* --------------------------------------------------------------------------
\* 12. The request body at the two endpoints
\*     (chat route.ts 367-372, 546-550; search route.ts 42-69, 151-157)
\* --------------------------------------------------------------------------

\* what a field of the JSON body can be; "absent" is undefined
MessageKinds == {"absent", "number", "string", "array"}

\* "list" is an array of {role, content}; the items of "badItems" have no
\* content
HistoryKinds == {"absent", "list", "badItems", "string", "number"}

TypeKinds == {"absent", "hybrid", "other"}

LimitKinds == {"absent", "inRange", "zero", "string"}

\* isJson: the body text parses as a JSON object
ChatBodies ==
  [isJson : BOOLEAN, message : MessageKinds, history : HistoryKinds,
   episodeId : {"absent", "e1"}, type : {"absent"}, limit : {"absent"}]

\* the query of a search body is its message field
SearchBodies ==
  [isJson : BOOLEAN, message : MessageKinds \cup {"empty"},
   history : {"absent"}, episodeId : {"absent"}, type : TypeKinds,
   limit : LimitKinds]

\* value.slice exists: String.prototype.slice and Array.prototype.slice
HasSlice(kind) == kind \in {"string", "array", "list", "badItems", "empty"}

\* line 369: history = [] replaces an undefined history
DefaultHistory(kind) == IF kind = "absent" THEN "list" ELSE kind

\* lines 203-205: history.slice(-4).map(m => `${m.role}: ${m.content.slice(0, 300)}`)
\* throws unless history is an array whose items have a string content
PlanHistoryThrows(kind) == DefaultHistory(kind) # "list"

\* lines 474-477: history.slice(-6).map(msg => ({role: msg.role, content:
\* msg.content})) throws unless history is an array
PromptHistoryThrows(kind) == DefaultHistory(kind) \notin {"list", "badItems"}

\* line 370: message.slice(0, 50)
LogThrows(b) == ~HasSlice(b.message)

\* SearchRequestSchema.safeParse(body).success
SafeParse(b) ==
  /\ b.message = "string"
  /\ b.type \in {"absent", "hybrid"}
  /\ b.limit \in {"absent", "inRange"}

\* the catch blocks: chat answers `Error: ${error.message}`, search answers
\* {error: "Internal server error"}, both with status 500
CatchResponse(ep, thrown) ==
  [status |-> "500",
   error |-> IF ep = "chat" THEN "Error: " \o thrown ELSE "Internal server error"]

requestRest == <<chatVars, midVars, hangupVars, guestVars, rateVars, embedVars, podcastVars>>

RequestOthersIdle == ChatIdle /\ MidIdle /\ HangupIdle /\ GuestIdle /\ RateIdle /\ EmbedIdle /\ PodcastIdle

InitRequest ==
  /\ RequestOthersIdle
  /\ qpc = "received"
  /\ qEndpoint \in {"chat", "search"}
  /\ qBody \in (IF qEndpoint = "chat" THEN ChatBodies ELSE SearchBodies)
  /\ qCalls = <<>>
  /\ qResponse = [status |-> "", error |-> ""]

\* chat lines 368-403: req.json(), the destructuring, the log line and the
\* choice of the mode, up to the first awaited call
ChatBegin ==
  /\ qpc = "received"
  /\ qEndpoint = "chat"
  /\ IF ~qBody.isJson
       THEN /\ qResponse' = CatchResponse("chat", "SyntaxError")
            /\ qpc' = "responded"
       ELSE IF LogThrows(qBody)
         THEN /\ qResponse' = CatchResponse("chat", "TypeError")
              /\ qpc' = "responded"
         ELSE /\ qResponse' = qResponse
              /\ qpc' = IF qBody.episodeId # "absent" THEN "episode" ELSE "plan"
  /\ UNCHANGED <<qEndpoint, qBody, qCalls, requestRest>>

\* chat lines 385-400 and 474-477: getFullEpisode queries the datastore, then
\* the conversation history is built
ChatEpisode ==
  /\ qpc = "episode"
  /\ qCalls' = Append(qCalls, "datastore")
  /\ IF PromptHistoryThrows(qBody.history)
       THEN /\ qResponse' = CatchResponse("chat", "TypeError")
            /\ qpc' = "responded"
       ELSE /\ qResponse' = qResponse
            /\ qpc' = "work"
  /\ UNCHANGED <<qEndpoint, qBody, requestRest>>

\* chat lines 403 and 193-259: planSearch builds recentHistory, then calls
\* the completion
ChatPlan ==
  /\ qpc = "plan"
  /\ IF PlanHistoryThrows(qBody.history)
       THEN /\ qResponse' = CatchResponse("chat", "TypeError")
            /\ qpc' = "responded"
            /\ qCalls' = qCalls
       ELSE /\ qResponse' = qResponse
            /\ qpc' = "retrieve"
            /\ qCalls' = Append(qCalls, "completion")
  /\ UNCHANGED <<qEndpoint, qBody, requestRest>>

\* chat lines 408-413: multiQuerySearch embeds the queries and searches
ChatRetrieve ==
  /\ qpc = "retrieve"
  /\ qCalls' = qCalls \o <<"embedding", "datastore">>
  /\ qpc' = "work"
  /\ UNCHANGED <<qEndpoint, qBody, qResponse, requestRest>>

\* chat lines 515-545: streamText and the streaming response
ChatStream ==
  /\ qpc = "work"
  /\ qEndpoint = "chat"
  /\ qCalls' = Append(qCalls, "completion")
  /\ qResponse' = [status |-> "200", error |-> ""]
  /\ qpc' = "responded"
  /\ UNCHANGED <<qEndpoint, qBody, requestRest>>

\* search lines 44-69: the rate limit, req.json() and the schema
SearchBegin ==
  /\ qpc = "received"
  /\ qEndpoint = "search"
  /\ \E allowed \in BOOLEAN :
       IF ~allowed
         THEN /\ qResponse' = [status |-> "429", error |-> "Rate limit exceeded"]
              /\ qpc' = "responded"
         ELSE IF ~qBody.isJson
           THEN /\ qResponse' = CatchResponse("search", "SyntaxError")
                /\ qpc' = "responded"
           ELSE IF ~SafeParse(qBody)
             THEN /\ qResponse' =
                       [status |-> "400", error |-> "Invalid request format"]
                  /\ qpc' = "responded"
             ELSE /\ qResponse' = qResponse
                  /\ qpc' = "work"
  /\ UNCHANGED <<qEndpoint, qBody, qCalls, requestRest>>

\* search lines 71-150: the searches and the JSON response
SearchWork ==
  /\ qpc = "work"
  /\ qEndpoint = "search"
  /\ qCalls' = qCalls \o <<"embedding", "datastore">>
  /\ qResponse' = [status |-> "200", error |-> ""]
  /\ qpc' = "responded"
  /\ UNCHANGED <<qEndpoint, qBody, requestRest>>

\* an awaited upstream call rejects: the catch block of the endpoint answers
UpstreamFails ==
  /\ qpc \in {"retrieve", "work"}
  /\ qCalls' = Append(qCalls, IF qpc = "retrieve" THEN "datastore"
                               ELSE IF qEndpoint = "chat" THEN "completion"
                               ELSE "embedding")
  /\ qResponse' = CatchResponse(qEndpoint, "upstream")
  /\ qpc' = "responded"
  /\ UNCHANGED <<qEndpoint, qBody, requestRest>>

NextRequest ==
  \/ ChatBegin
  \/ ChatEpisode
  \/ ChatPlan
  \/ ChatRetrieve
  \/ ChatStream
  \/ SearchBegin
  \/ SearchWork
  \/ UpstreamFails

SpecRequest == InitRequest /\ [][NextRequest]_vars

\* the body lacks a string message (query), or its history is not a list of
\* {role, content}
Malformed(ep, b) ==
  \/ b.message # "string"
  \/ ep = "chat" /\ DefaultHistory(b.history) # "list"

\* the statuses the endpoint answers when an upstream call fails
UpstreamStatuses == {CatchResponse(ep, "upstream").status : ep \in {"chat", "search"}}

\* C21: at both endpoints a request whose body lacks a string message
\* (query) or carries a malformed history is answered without any embedding,
\* completion or datastore call having been made, and with an error status
\* other than the status answered for upstream failures.
ValidationErrors ==
  (qpc = "responded" /\ qBody.isJson /\ Malformed(qEndpoint, qBody))
    => /\ qCalls = <<>>
       /\ qResponse.status \notin UpstreamStatuses \cup {"200"}

\* --------------------------------------------------------------------------
\* 13. The caller cancels the response stream
\*     (chat route.ts 524-538: a ReadableStream with start() only)
\* --------------------------------------------------------------------------
MaxDeltas == 5

\* controller.enqueue and controller.close throw a TypeError unless the
\* stream is readable
EnqueueAlways(state) == TRUE

CanEnqueue(state) == state = "readable"

hangupRest == <<chatVars, midVars, requestVars, guestVars, rateVars, embedVars, podcastVars>>

HangupOthersIdle == ChatIdle /\ MidIdle /\ RequestIdle /\ GuestIdle /\ RateIdle /\ EmbedIdle /\ PodcastIdle

\* start() has been called: the loop awaits the first delta
InitHangup ==
  /\ HangupOthersIdle
  /\ hpc = "pulling"
  /\ hState = "readable"
  /\ hPulled = 0
  /\ hQueue = 0
  /\ hReleased = FALSE
  /\ hEnqueued = 0
  /\ hObserved = FALSE

\* line 530: the text stream yields the next delta
PullToken ==
  /\ hpc = "pulling"
  /\ hPulled < MaxDeltas
  /\ hPulled' = hPulled + 1
  /\ hpc' = "holding"
  /\ UNCHANGED <<hState, hQueue, hReleased, hEnqueued, hObserved, hangupRest>>

\* line 530: the text stream is done, the loop ends
TextStreamDone ==
  /\ hpc = "pulling"
  /\ hReleased' = TRUE
  /\ hpc' = "finishing"
  /\ UNCHANGED <<hState, hPulled, hQueue, hEnqueued, hObserved, hangupRest>>

\* line 530: the text stream throws; start() rejects, which errors a stream
\* that is still readable
TextStreamThrows ==
  /\ hpc = "pulling"
  /\ hReleased' = TRUE
  /\ hpc' = "exited"
  /\ hState' = IF hState = "readable" THEN "errored" ELSE hState
  /\ hQueue' = IF hState = "readable" THEN 0 ELSE hQueue
  /\ UNCHANGED <<hPulled, hEnqueued, hObserved, hangupRest>>

\* line 531: controller.enqueue(encoder.encode(chunk)); when it throws, the
\* for await loop is left and closes the iterator of the text stream
EnqueueDelta ==
  /\ hpc = "holding"
  /\ hObserved' = (hObserved \/ hState = "cancelled")
  /\ IF CanEnqueue(hState)
       THEN /\ hQueue' = IF hState = "readable" THEN hQueue + 1 ELSE hQueue
            /\ hEnqueued' = hEnqueued + 1
            /\ hpc' = "pulling"
            /\ hReleased' = hReleased
       ELSE /\ hpc' = "exited"
            /\ hReleased' = TRUE
            /\ UNCHANGED <<hQueue, hEnqueued>>
  /\ UNCHANGED <<hState, hPulled, hangupRest>>

\* lines 535-536: the sources chunk and controller.close()
EnqueueSources ==
  /\ hpc = "finishing"
  /\ hObserved' = (hObserved \/ hState = "cancelled")
  /\ IF CanEnqueue(hState)
       THEN /\ hQueue' = IF hState = "readable" THEN hQueue + 1 ELSE hQueue
            /\ hEnqueued' = hEnqueued + 1
            /\ hpc' = "closed"
            /\ hState' = IF hState = "readable" THEN "closed" ELSE hState
       ELSE /\ hpc' = "exited"
            /\ UNCHANGED <<hQueue, hEnqueued, hState>>
  /\ UNCHANGED <<hPulled, hReleased, hangupRest>>

\* the caller reads a chunk of the response
CallerReads ==
  /\ hState \in {"readable", "closed"}
  /\ hQueue > 0
  /\ hQueue' = hQueue - 1
  /\ UNCHANGED <<hpc, hState, hPulled, hReleased, hEnqueued, hObserved,
                 hangupRest>>

\* the caller disconnects before the stream is closed: the stream is
\* cancelled and its queue emptied; the underlying source has no cancel()
CallerCancels ==
  /\ hState = "readable"
  /\ hpc \in {"pulling", "holding", "finishing"}
  /\ hState' = "cancelled"
  /\ hQueue' = 0
  /\ UNCHANGED <<hpc, hPulled, hReleased, hEnqueued, hObserved, hangupRest>>

\* what the completion does
TextStreamStep == PullToken \/ TextStreamDone \/ TextStreamThrows

\* what start() does between two awaits
LoopStepOfStart == EnqueueDelta \/ EnqueueSources

NextHangup ==
  \/ PullToken
  \/ TextStreamDone
  \/ TextStreamThrows
  \/ EnqueueDelta
  \/ EnqueueSources
  \/ CallerReads
  \/ CallerCancels

SpecHangup == InitHangup /\ [][NextHangup]_vars

\* the completion's stream yields, ends or fails, and the continuation of an
\* await that has settled runs
SpecHangupFair ==
  /\ SpecHangup
  /\ WF_vars(TextStreamStep)
  /\ WF_vars(LoopStepOfStart)

\* once the loop has met the cancelled stream, it takes no further delta and
\* enqueues nothing
QuietOnceObserved ==
  [][hObserved => (hPulled' = hPulled /\ hEnqueued' = hEnqueued)]_vars

MaxGuestLimit == 2
MaxWords == 2

\* ILIKE folds case
Lower(ch) ==
  CASE ch = "A" -> "a"
    [] ch = "B" -> "b"
    [] ch = "J" -> "j"
    [] ch = "Z" -> "z"
    [] OTHER -> ch

\* text ILIKE pattern: % stands for any run of characters, _ for any one
RECURSIVE ILike(_, _)
ILike(text, pattern) ==
  IF pattern = <<>> THEN text = <<>>
  ELSE IF Head(pattern) = "%"
    THEN \/ ILike(text, Tail(pattern))
         \/ text # <<>> /\ ILike(Tail(text), pattern)
    ELSE /\ text # <<>>
         /\ \/ Head(pattern) = "_"
            \/ Lower(Head(pattern)) = Lower(Head(text))
         /\ ILike(Tail(text), Tail(pattern))

\* `%${query}%`
Pattern(name) == <<"%">> \o name \o <<"%">>

\* .or(`title.ilike.%${query}%,guest_name.ilike.%${query}%`) on one row
RowMatches(row, name) ==
  \/ ILike(row.title, Pattern(name))
  \/ ILike(row.guest_name, Pattern(name))

\* query.split(/\s+/): the pieces between the runs of white space
RECURSIVE SplitWhitespace(_, _, _)
SplitWhitespace(text, piece, inRun) ==
  IF text = <<>> THEN <<piece>>
  ELSE IF Head(text) = " "
    THEN IF inRun THEN SplitWhitespace(Tail(text), piece, TRUE)
         ELSE <<piece>> \o SplitWhitespace(Tail(text), <<>>, TRUE)
    ELSE SplitWhitespace(Tail(text), Append(piece, Head(text)), FALSE)

\* w => w.length > 2
LongEnough(w) == Len(w) > 2

\* query.split(/\s+/).filter(w => w.length > 2)
WordsOf(name) == SelectSeq(SplitWhitespace(name, <<>>, FALSE), LongEnough)

\* the per-word conditions joined by ',' inside .or(): any word matches
AnyWordMatches(row, words) == \E i \in 1..Len(words) : RowMatches(row, words[i])

\* .limit(n) of the rows that pass, in the order of the scan
FirstRows(rows, n) == SubSeq(rows, 1, IF Len(rows) < n THEN Len(rows) ELSE n)

ExactRows(table, name, n) ==
  LET Passes(row) == RowMatches(row, name)
  IN FirstRows(SelectSeq(table, Passes), n)

WordRows(table, words, n) ==
  LET Passes(row) == AnyWordMatches(row, words)
  IN FirstRows(SelectSeq(table, Passes), n)

GuestRows ==
  <<[id |-> 1, guest_name |-> <<"B", "o", "b", " ", "A", "b", "e">>,
     title |-> <<"j", "o", "b", "s">>],
    [id |-> 2, guest_name |-> <<"J", "o", " ", "Z", "a", "b">>,
     title |-> <<"a", "b", "e">>],
    [id |-> 3, guest_name |-> <<"B", "a", "b">>,
     title |-> <<"b", "o">>]>>

\* the scan orders of the store
GuestTables ==
  {GuestRows, <<GuestRows[3], GuestRows[1], GuestRows[2]>>,
   <<GuestRows[2], GuestRows[3], GuestRows[1]>>}

GuestWords ==
  {<<"B", "o", "b">>, <<"b", "o", "b">>, <<"B", "_", "b">>, <<"J", "o">>,
   <<"a", "b", "e">>, <<"Z", "e", "d">>, <<"b", "o">>, <<"o", "b", "s">>}

\* words joined by one blank or by two
RECURSIVE JoinWords(_, _)
JoinWords(ws, gap) ==
  IF Len(ws) = 1 THEN ws[1] ELSE ws[1] \o gap \o JoinWords(Tail(ws), gap)

GuestNames ==
  {JoinWords(ws, gap) :
     ws \in UNION {[1..n -> GuestWords] : n \in 1..MaxWords},
     gap \in {<<" ">>, <<" ", " ">>}}

guestRest == <<chatVars, midVars, requestVars, hangupVars, rateVars, embedVars, podcastVars>>

GuestOthersIdle == ChatIdle /\ MidIdle /\ RequestIdle /\ HangupIdle /\ RateIdle /\ EmbedIdle /\ PodcastIdle

InitGuest ==
  /\ GuestOthersIdle
  /\ gpc = "exact"
  /\ gQuery \in GuestNames
  /\ gLimit \in 1..MaxGuestLimit
  /\ gTable \in GuestTables
  /\ gResult = <<>>
  /\ gRan = {}
  /\ gExact = <<>>

\* lines 110-118: the query for the whole name
ExactQuery ==
  /\ gpc = "exact"
  /\ gRan' = gRan \cup {"exact"}
  /\ gExact' = ExactRows(gTable, gQuery, gLimit)
  /\ IF Len(gExact') > 0
       THEN gResult' = gExact' /\ gpc' = "returned"
       ELSE gResult' = gResult /\ gpc' = "words"
  /\ UNCHANGED <<gQuery, gLimit, gTable, guestRest>>

\* lines 110-116: the store reports an error, exactMatches is null
ExactQueryFails ==
  /\ gpc = "exact"
  /\ gRan' = gRan \cup {"exact"}
  /\ gpc' = "words"
  /\ UNCHANGED <<gQuery, gLimit, gTable, gResult, gExact, guestRest>>

\* lines 121-134: the query over the words
WordQuery ==
  /\ gpc = "words"
  /\ Len(WordsOf(gQuery)) > 0
  /\ gRan' = gRan \cup {"words"}
  /\ gResult' = WordRows(gTable, WordsOf(gQuery), gLimit)
  /\ gpc' = "returned"
  /\ UNCHANGED <<gQuery, gLimit, gTable, gExact, guestRest>>

\* lines 128-134: partialMatches is null, [] is returned
WordQueryFails ==
  /\ gpc = "words"
  /\ Len(WordsOf(gQuery)) > 0
  /\ gRan' = gRan \cup {"words"}
  /\ gResult' = <<>>
  /\ gpc' = "returned"
  /\ UNCHANGED <<gQuery, gLimit, gTable, gExact, guestRest>>

\* lines 121-122 and 137: no word is longer than two characters
NoWords ==
  /\ gpc = "words"
  /\ Len(WordsOf(gQuery)) = 0
  /\ gResult' = <<>>
  /\ gpc' = "returned"
  /\ UNCHANGED <<gQuery, gLimit, gTable, gRan, gExact, guestRest>>

NextGuest ==
  \/ ExactQuery
  \/ ExactQueryFails
  \/ WordQuery
  \/ WordQueryFails
  \/ NoWords

SpecGuest == InitGuest /\ [][NextGuest]_vars

\* name is a substring of text, case folded
IsSubstring(name, text) ==
  \E i \in 1..(Len(text) - Len(name) + 1) :
    \A j \in 1..Len(name) : Lower(text[i + j - 1]) = Lower(name[j])

\* name is a substring of the row's title or guest_name
NameIn(row, name) ==
  IsSubstring(name, row.title) \/ IsSubstring(name, row.guest_name)

RowsOf(list) == {list[i] : i \in 1..Len(list)}

\* C23: textSearchEpisodes returns the episodes whose title or guest_name
\* holds the whole name as a substring when the first query finds any, and
\* runs the per-word query only when it finds none; that query takes the
\* episodes holding some word longer than two characters as a substring;
\* without such a word the result is empty; the result never has more than
\* limit episodes.
LayeredResolution ==
  gpc = "returned" =>
    /\ Len(gResult) <= gLimit
    /\ Len(gExact) > 0 =>
         /\ gResult = gExact
         /\ "words" \notin gRan
         /\ \A row \in RowsOf(gResult) : NameIn(row, gQuery)
    /\ "words" \in gRan =>
         /\ gExact = <<>>
         /\ \A row \in RowsOf(gResult) :
              \E w \in RowsOf(SplitWhitespace(gQuery, <<>>, FALSE)) :
                Len(w) > 2 /\ NameIn(row, w)
    /\ (gExact = <<>> /\ \A w \in RowsOf(SplitWhitespace(gQuery, <<>>, FALSE)) :
                           Len(w) <= 2)
         => gResult = <<>> /\ "words" \notin gRan

\* --------------------------------------------------------------------------
\* 15. multiQuerySearch: the episodes returned and the guest filter
\*     (chat route.ts 294-350), over the variables of section 3
\* --------------------------------------------------------------------------

\* the distinct episode ids of the chunks of a list
ReferencedEpisodes(list) == {list[i].episode_id : i \in 1..Len(list)}

\* C24: the episodes multiQuerySearch fetches and returns are those of the
\* chunks in the truncated list it returns, no others.
EpisodesOfTruncatedList ==
  (fpc = "done" /\ episodes # <<>>)
    => Range(episodes) = ReferencedEpisodes(sortedChunks)

\* the searchChunks calls made for query i, in the order made
CallsOf(i) == SelectSeq(calls, LAMBDA c : c.q = i)

\* one call per candidate episode, in the order of the candidates
ScopedCalls(i) ==
  [k \in 1..Len(filterEpisodeIds.ids) |-> [q |-> i, ep |-> filterEpisodeIds.ids[k]]]

\* the guest filter resolved to candidates, at most GuestEpisodeLimit of them
GuestResolved ==
  /\ ~filterEpisodeIds.isNull
  /\ Len(filterEpisodeIds.ids) \in 1..GuestEpisodeLimit

\* no unfiltered search, and only chunks of the candidates are returned
ScopedToCandidates ==
  /\ \A k \in 1..Len(calls) : calls[k].ep \in Range(filterEpisodeIds.ids)
  /\ ReferencedEpisodes(sortedChunks) \subseteq Range(filterEpisodeIds.ids)

\* C25 as stated: with a guest filter resolved to candidates, every query
\* gets exactly one search per candidate episode and no unfiltered one, and
\* every returned chunk is of a candidate episode.
GuestFilterScoping ==
  (fpc = "done" /\ ~filterEpisodeIds.isNull) =>
    /\ GuestResolved
    /\ ScopedToCandidates
    /\ \A i \in 1..Len(queries) : CallsOf(i) = ScopedCalls(i)

\* C25: with a guest filter resolved to candidates, every query whose
\* embedding was obtained gets exactly one search per candidate episode, a
\* query whose embedding failed gets none, no search is unfiltered, and
\* every returned chunk is of a candidate episode.
GuestFilterScopingOfEmbedded ==
  (fpc = "done" /\ ~filterEpisodeIds.isNull) =>
    /\ GuestResolved
    /\ ScopedToCandidates
    /\ \A i \in 1..Len(queries) :
         CallsOf(i) = IF i \in embedFailed THEN <<>> ELSE ScopedCalls(i)

\* two candidates, a query whose embedding failed and a later one searched
\* in both candidates, chunks returned
GuestFilterScopingWitness ==
  /\ fpc = "done"
  /\ Len(filterEpisodeIds.ids) = 2
  /\ \E i \in embedFailed : \E j \in 1..Len(queries) :
       j > i /\ j \notin embedFailed /\ Len(CallsOf(j)) = 2
  /\ Len(sortedChunks) > 0

\* --------------------------------------------------------------------------
\* 16. planSearch on a JSON object of the wrong shape
\*     (chat route.ts 266-284), over the variables of section 2
\* --------------------------------------------------------------------------

\* the object JSON.parse made of the completion text
ParsedObject(content) == JsonParse(RegexMatch(content).text).obj

\* the text from the first "{" to the last "}" parses as one object
ParsesAsObject(content) ==
  RegexMatch(content).found /\ JsonParse(RegexMatch(content).text).ok

\* the four fields are present with the shape of a SearchPlan
HasPlanShape(obj) ==
  /\ obj.searchQueries.t = "arr"
  /\ obj.guestFilter.t \in {"str", "null"}
  /\ obj.searchMode.t = "str"
  /\ obj.intent.t = "str"

\* C26: a completion text holding a JSON object that lacks one of
\* searchQueries, guestFilter, searchMode and intent, or has it with the
\* wrong shape, gives the fallback plan of a provider error.
MalformedPlanIsFallback ==
  (/\ ppc # "planning"
   /\ completion.kind = "ok"
   /\ ParsesAsObject(completion.content)
   /\ ~HasPlanShape(ParsedObject(completion.content)))
  => plan = DefaultPlan(message)

\* --------------------------------------------------------------------------
\* 17. Where a chunk's tags come from
\*     (part_003 228-260), over the variables of section 9
\* --------------------------------------------------------------------------

\* the chunks pushed inside the loop, when a paragraph did not fit
Flushed == {c \in 1..Len(kChunks) : emittedAt[c] <= Len(kParagraphs)}

\* C27: a chunk pushed when a paragraph did not fit carries the timestamp
\* and the speaker detected in the paragraphs before that paragraph, which
\* itself is only in the next chunk; the last chunk carries those detected
\* in the whole transcript.
TagNotFromFollowingText ==
  \A c \in 1..Len(kChunks) :
    LET before == IF c \in Flushed THEN emittedAt[c] - 1 ELSE Len(kParagraphs)
    IN /\ kChunks[c].startTimestamp = LastTimestamp(before)
       /\ kChunks[c].speaker = LastSpeaker(before)

\* --------------------------------------------------------------------------
\* 18. checkRateLimit (src/unnamed/part_008 68-108; search route.ts 44-57)
\*     Times are in units of half a window.
\* --------------------------------------------------------------------------
RateMaxRequests == 2
RateWindow == 2
CleanupSize == 1
MaxClock == 4

Identifiers == {"search:a", "search:b"}

\* rateLimitStore.get(identifier) of an identifier without an entry
NoRecord == [present |-> FALSE, count |-> 0, resetTime |-> 0]

\* rateLimitStore.size
StoreSize(table) == Cardinality({k \in DOMAIN table : table[k].present})

\* lines 80-86: above the size limit, the entries whose window is over go
CleanedUp(table, now) ==
  IF StoreSize(table) > CleanupSize
    THEN [k \in DOMAIN table |->
            IF table[k].present /\ table[k].resetTime < now THEN NoRecord
            ELSE table[k]]
    ELSE table

\* a limiter that opens a window on every call
NewWindowAlways(record, now) == TRUE

\* line 88: !record || record.resetTime < now
NewWindow(record, now) == ~record.present \/ record.resetTime < now

\* checkRateLimit(identifier, maxRequests, windowMs) at time now on a table:
\* the table it leaves and the object it returns
CheckRateLimit(table, identifier, maxRequests, windowMs, now) ==
  LET record == table[identifier]
      cleaned == CleanedUp(table, now)
  IN IF NewWindow(record, now)
       THEN [table |-> [cleaned EXCEPT ![identifier] =
                          [present |-> TRUE, count |-> 1,
                           resetTime |-> now + windowMs]],
             result |-> [allowed |-> TRUE, remaining |-> maxRequests - 1,
                         resetIn |-> windowMs]]
       ELSE IF record.count >= maxRequests
         THEN [table |-> cleaned,
               result |-> [allowed |-> FALSE, remaining |-> 0,
                           resetIn |-> record.resetTime - now]]
         ELSE [table |-> [cleaned EXCEPT ![identifier].count = @ + 1],
               result |-> [allowed |-> TRUE,
                           remaining |-> maxRequests - (record.count + 1),
                           resetIn |-> record.resetTime - now]]

rateRest == <<chatVars, midVars, requestVars, hangupVars, guestVars, embedVars, podcastVars>>

RateOthersIdle == ChatIdle /\ MidIdle /\ RequestIdle /\ HangupIdle /\ GuestIdle /\ EmbedIdle /\ PodcastIdle

NoCall ==
  [identifier |-> "", allowed |-> FALSE, remaining |-> 0, resetIn |-> 0]

\* the module has been loaded: the Map is empty
InitRate ==
  /\ RateOthersIdle
  /\ rateLimitStore = [k \in Identifiers |-> NoRecord]
  /\ clock = 0
  /\ lastCall = NoCall
  /\ grants = [k \in Identifiers |-> <<>>]
  /\ windows = [k \in Identifiers |-> {}]
  /\ solo = [k \in Identifiers |-> NoRecord]

\* one call of checkRateLimit, as POST of the search endpoint makes it
RateCall(identifier) ==
  LET out == CheckRateLimit(rateLimitStore, identifier, RateMaxRequests,
                            RateWindow, clock)
      alone == CheckRateLimit([k \in {identifier} |-> solo[identifier]],
                              identifier, RateMaxRequests, RateWindow, clock)
  IN /\ rateLimitStore' = out.table
     /\ lastCall' = [identifier |-> identifier, allowed |-> out.result.allowed,
                     remaining |-> out.result.remaining,
                     resetIn |-> out.result.resetIn]
     /\ grants' = IF out.result.allowed
                    THEN [grants EXCEPT ![identifier] = Append(@, clock)]
                    ELSE grants
     /\ windows' = IF NewWindow(rateLimitStore[identifier], clock)
                     THEN [windows EXCEPT ![identifier] =
                             @ \cup {[from |-> clock, to |-> clock + RateWindow]}]
                     ELSE windows
     /\ solo' = [solo EXCEPT ![identifier] = alone.table[identifier]]
     /\ UNCHANGED <<clock, rateRest>>

CheckRateLimitCall == \E identifier \in Identifiers : RateCall(identifier)

\* time passes between two calls
ClockAdvances ==
  /\ clock < MaxClock
  /\ clock' = clock + 1
  /\ UNCHANGED <<rateLimitStore, lastCall, grants, windows, solo, rateRest>>

NextRate == CheckRateLimitCall \/ ClockAdvances

SpecRate == InitRate /\ [][NextRate]_vars

\* how many allowed calls of the identifier fall into the window
GrantsIn(identifier, w) ==
  Cardinality({i \in 1..Len(grants[identifier]) :
                 /\ w.from <= grants[identifier][i]
                 /\ grants[identifier][i] <= w.to})

\* the record as a later call will see it: none once its window is over
Live(record) ==
  IF record.present /\ record.resetTime >= clock THEN record ELSE NoRecord

\* what holds in every state
RateLimitState ==
  /\ \A k \in Identifiers : \A w \in windows[k] :
       GrantsIn(k, w) <= RateMaxRequests
  /\ lastCall.remaining >= 0
  /\ lastCall.allowed =>
       lastCall.remaining =
         RateMaxRequests - rateLimitStore[lastCall.identifier].count
  /\ \A k \in Identifiers : Live(rateLimitStore[k]) = Live(solo[k])

\* what holds of every call
RateLimitStep ==
  \A k \in Identifiers :
    RateCall(k) =>
      /\ ~lastCall'.allowed => rateLimitStore'[k] = rateLimitStore[k]
      /\ (rateLimitStore[k].present /\ rateLimitStore[k].resetTime < clock) =>
           /\ lastCall'.allowed
           /\ rateLimitStore'[k] =
                [present |-> TRUE, count |-> 1, resetTime |-> clock + RateWindow]

\* C28: per identifier, no window has more than maxRequests allowed calls
\* between its start and its resetTime; a denied call leaves the
\* identifier's count and resetTime as they were; the first call after
\* resetTime opens a new window with count 1; remaining is never negative
\* and is maxRequests minus the stored count on an allowed call; what an
\* identifier's calls see is what they would see in a table of its own.
RateLimiter == []RateLimitState /\ [][RateLimitStep]_vars

\* an identifier was denied in its first window and allowed in a second one,
\* after the entry of the other identifier had been removed by the clean-up
RateLimiterWitness ==
  /\ \E k \in Identifiers :
       /\ Len(grants[k]) > RateMaxRequests
       /\ Cardinality(windows[k]) = 2
       /\ lastCall.identifier = k
       /\ lastCall.allowed
  /\ \E k \in Identifiers : ~rateLimitStore[k].present /\ solo[k].present

\* --------------------------------------------------------------------------
\* 19. The embedding backfill (src/unnamed/part_005 366-493)
\* --------------------------------------------------------------------------
EMBED_BATCH_SIZE == 2
MaxBackfill == 3
MaxCount == 3

BackfillChunks == 1..MaxBackfill

\* processed and errors only feed the log lines
CountUp(n, by) == IF n + by > MaxCount THEN MaxCount ELSE n + by

\* .is("embedding", null).limit(BATCH_SIZE): that many of the rows, in the
\* order the store gives them
NullBatches(rows) ==
  LET n == IF Cardinality(rows) < EMBED_BATCH_SIZE THEN Cardinality(rows)
           ELSE EMBED_BATCH_SIZE
  IN {l \in [1..n -> rows] : \A i, j \in 1..n : i < j => l[i] # l[j]}

embedRest == <<chatVars, midVars, requestVars, hangupVars, guestVars, rateVars, podcastVars>>

EmbedOthersIdle == ChatIdle /\ MidIdle /\ RequestIdle /\ HangupIdle /\ GuestIdle /\ RateIdle /\ PodcastIdle

\* main() has counted the chunks and enters while (true)
InitEmbed ==
  /\ EmbedOthersIdle
  /\ bpc = "fetch"
  /\ nullChunks \in SUBSET BackfillChunks
  /\ neverEmbeds \in SUBSET nullChunks
  /\ neverUpdates \in SUBSET nullChunks
  /\ bBatch = <<>>
  /\ bIndex = 0
  /\ bUpdates = <<>>
  /\ processed = 0
  /\ bErrors = 0

\* lines 454-460: getChunksWithoutEmbeddings returns rows, or none and the
\* loop is left
FetchBatch ==
  /\ bpc = "fetch"
  /\ \E rows \in NullBatches(nullChunks) :
       /\ bBatch' = rows
       /\ bpc' = IF Len(rows) = 0 THEN "exited" ELSE "embed"
       /\ bIndex' = IF Len(rows) = 0 THEN 0 ELSE 1
  /\ bUpdates' = <<>>
  /\ UNCHANGED <<nullChunks, neverEmbeds, neverUpdates, processed, bErrors,
                 embedRest>>

\* lines 378-380: the store reports an error, getChunksWithoutEmbeddings
\* throws and main() rejects
FetchThrows ==
  /\ bpc = "fetch"
  /\ bpc' = "rejected"
  /\ UNCHANGED <<nullChunks, neverEmbeds, neverUpdates, bBatch, bIndex,
                 bUpdates, processed, bErrors, embedRest>>

\* lines 467-481: one turn of for (const chunk of chunks)
EmbedChunk ==
  /\ bpc = "embed"
  /\ IF bBatch[bIndex] \in neverEmbeds
       THEN bUpdates' = bUpdates /\ bErrors' = CountUp(bErrors, 1)
       ELSE bUpdates' = Append(bUpdates, bBatch[bIndex]) /\ bErrors' = bErrors
  /\ IF bIndex < Len(bBatch)
       THEN bIndex' = bIndex + 1 /\ bpc' = bpc
       ELSE bIndex' = 1 /\ bpc' = "update"
  /\ UNCHANGED <<nullChunks, neverEmbeds, neverUpdates, bBatch, processed,
                 embedRest>>

\* lines 405-417: one turn of the loop of updateChunkEmbeddings; an error is
\* logged and the row keeps its null embedding
UpdateChunk ==
  /\ bpc = "update"
  /\ bIndex <= Len(bUpdates)
  /\ nullChunks' = IF bUpdates[bIndex] \in neverUpdates THEN nullChunks
                   ELSE nullChunks \ {bUpdates[bIndex]}
  /\ bIndex' = bIndex + 1
  /\ UNCHANGED <<bpc, neverEmbeds, neverUpdates, bBatch, bUpdates, processed,
                 bErrors, embedRest>>

\* lines 484-490: the batch is done, on to the next turn of while (true)
NextBatch ==
  /\ bpc = "update"
  /\ bIndex > Len(bUpdates)
  /\ processed' = CountUp(processed, Len(bUpdates))
  /\ bpc' = "fetch"
  /\ bIndex' = 0
  /\ UNCHANGED <<nullChunks, neverEmbeds, neverUpdates, bBatch, bUpdates,
                 bErrors, embedRest>>

NextEmbed ==
  \/ FetchBatch
  \/ FetchThrows
  \/ EmbedChunk
  \/ UpdateChunk
  \/ NextBatch

SpecEmbed == InitEmbed /\ [][NextEmbed]_vars

\* every await of the script settles and main() goes on
SpecEmbedFair == SpecEmbed /\ WF_vars(NextEmbed)

\* C29: main() of the embedding script comes to an end, also when the
\* embedding or the update of some chunk fails at every attempt.
BackfillTerminates == <>(bpc \in {"exited", "rejected"})

\* --------------------------------------------------------------------------
\* 20. PodcastChat reading the response (src/unnamed/part_010 52-94)
\* --------------------------------------------------------------------------

\* generated texts in ASCII: up to MaxTextLen of the characters a and _
PodcastTexts == SeqsUpTo({Code("a"), Code("_")}, MaxTextLen)

\* the source list of an episode-scoped request: empty, or one citation
\* without a timestamp
PodcastSourceLists ==
  {l \in StreamSourceLists : \A i \in 1..Len(l) : ~l[i].timestamp.defined}

\* line 75: text.split(sep)[0]
SplitFirst(text, sep) ==
  IF Includes(text, sep) THEN SubSeq(text, 1, IndexOf(text, sep) - 1) ELSE text

podcastRest ==
  <<chatVars, midVars, requestVars, hangupVars, guestVars, rateVars, embedVars>>

PodcastOthersIdle ==
  ChatIdle /\ MidIdle /\ RequestIdle /\ HangupIdle /\ GuestIdle /\ RateIdle
  /\ EmbedIdle

InitPodcast ==
  /\ PodcastOthersIdle
  /\ ypc = "reading"
  /\ yText \in PodcastTexts
  /\ yList \in PodcastSourceLists
  /\ yPending \in Divide(ResponseBytes(yText, yList), MaxCuts)
  /\ yMessage = <<>>
  /\ yDisplay = <<>>

\* lines 60-84: one turn of the while loop
PodcastRead ==
  /\ ypc = "reading"
  /\ yPending /= <<>>
  /\ LET chunk == Utf8Decode(Head(yPending))
     IN yMessage' =
          IF Includes(chunk, Marker) THEN yMessage \o SplitFirst(chunk, Marker)
          ELSE IF ~Includes(yMessage, Marker) THEN yMessage \o chunk
          ELSE yMessage
  /\ yDisplay' = SplitFirst(yMessage', Marker)
  /\ yPending' = Tail(yPending)
  /\ UNCHANGED <<ypc, yText, yList, podcastRest>>

\* lines 61-62: read() reports done
PodcastDone ==
  /\ ypc = "reading"
  /\ yPending = <<>>
  /\ ypc' = "done"
  /\ UNCHANGED <<yText, yList, yPending, yMessage, yDisplay, podcastRest>>

\* lines 86-94: read() rejects; the catch block adds an error message of its
\* own and leaves the assistant message as it is
PodcastThrows ==
  /\ ypc = "reading"
  /\ ypc' = "failed"
  /\ UNCHANGED <<yText, yList, yPending, yMessage, yDisplay, podcastRest>>

NextPodcast == PodcastRead \/ PodcastDone \/ PodcastThrows

SpecPodcast == InitPodcast /\ [][NextPodcast]_vars

IsPrefixOf(part, text) ==
  Len(part) <= Len(text) /\ SubSeq(text, 1, Len(part)) = part

\* C30: however the response is divided into read() chunks, the assistant
\* message PodcastChat shows is at every moment a part of the generated
\* text the server sent before the marker: nothing of the marker or of the
\* source list is ever in it.
PodcastNeverShowsSources == IsPrefixOf(yDisplay, yText)

====
